---- MODULE Spec2Model ----
(***************************************************************************)
(* Model of the record classification and aggregation pipeline of          *)
(* streamlit_app.py: status classification over keyword sets, status       *)
(* aggregation, pin color categories, community records with centroids,    *)
(* and the ordering of projects and systems inside a community tooltip.    *)
(*                                                                         *)
(* Text is a sequence of one-character strings, so that substring tests,   *)
(* lower-casing, stripping and code-point comparison are computed.         *)
(* A cell of the dataset is a record tagged by "kind":                     *)
(*   [kind |-> "none"]            Python None                              *)
(*   [kind |-> "nan"]             a missing cell (NaN)                     *)
(*   [kind |-> "str", s |-> t]    a text cell                              *)
(*   [kind |-> "num", n |-> k]    an integer-valued number                 *)
(*   [kind |-> "frac", f |-> k]   a number k + 1/2 (not integer-valued)    *)
(*   [kind |-> "bool", b |-> x]   a Python bool                            *)
(*   [kind |-> "ts", year |-> y, month |-> m, day |-> d]  a Timestamp      *)
(***************************************************************************)
EXTENDS Integers, Sequences, FiniteSets, TLC

VARIABLES pc, value, status_list, df, result,
          previous, file, cache, reads, query, page,
          panel, events

\* the render passes of the Streamlit process: the outcome of an earlier run,
\* the dataset file, the st.cache_data store, the count of file reads, the
\* query parameters and what the pass has put on the page
session_vars == <<previous, file, cache, reads, query, page>>

\* the click handler injected into the map page: the panel and the events
browser_vars == <<panel, events>>

vars == <<pc, value, status_list, df, result, session_vars, browser_vars>>

\* ------------------------------------------------------------------------
\* Bounds of the model
\* ------------------------------------------------------------------------
MaxFrags == 3

MaxStatuses == 3

MaxGroup == 3

MaxYearFrags == 4

MaxRows == 3

MaxProjectRows == 3

MaxTooltipRows == 3

MaxYearRows == 3

MaxIdFrags == 4

MaxRerunRows == 2

MaxReads == 3

MaxClicks == 6
\* rows of a frame whose detail links are opened
MaxLinkRows == 2

\* ------------------------------------------------------------------------
\* Text
\* ------------------------------------------------------------------------
UpperCase ==
  <<"A", "B", "C", "D", "E", "F", "G", "H", "I", "J", "K", "L", "M", "N", "O", "P", "Q", "R", "S", "T", "U", "V", "W", "X", "Y", "Z">>

LowerCase ==
  <<"a", "b", "c", "d", "e", "f", "g", "h", "i", "j", "k", "l", "m", "n", "o", "p", "q", "r", "s", "t", "u", "v", "w", "x", "y", "z">>

Digits ==
  <<"0", "1", "2", "3", "4", "5", "6", "7", "8", "9">>

\* the characters of the model in code-point order
CodePoints ==
  <<"\t", " ", "\"", "#", "%", "&", "'", "+", "-", ".", "/">> \o Digits
    \o <<";", "<", ">">> \o UpperCase \o LowerCase

Whitespace == {" ", "\t"}

Code(c) == CHOOSE i \in 1..Len(CodePoints) : CodePoints[i] = c

IsUpper(c) == \E i \in 1..Len(UpperCase) : UpperCase[i] = c

lower_char(c) ==
  IF IsUpper(c)
    THEN LowerCase[CHOOSE i \in 1..Len(UpperCase) : UpperCase[i] = c]
    ELSE c

\* str.lower()
lower(s) == [i \in 1..Len(s) |-> lower_char(s[i])]

RECURSIVE lstrip(_)
lstrip(s) ==
  IF s # <<>> /\ Head(s) \in Whitespace THEN lstrip(Tail(s)) ELSE s

RECURSIVE rstrip(_)
rstrip(s) ==
  IF s # <<>> /\ s[Len(s)] \in Whitespace
    THEN rstrip(SubSeq(s, 1, Len(s) - 1))
    ELSE s

\* str.strip()
strip(s) == rstrip(lstrip(s))

\* keyword in text
Contains(keyword, text) ==
  \E i \in 1..(Len(text) - Len(keyword) + 1) :
    SubSeq(text, i, i + Len(keyword) - 1) = keyword

RECURSIVE digits_of(_)
digits_of(n) ==
  IF n < 10 THEN <<Digits[n + 1]>>
  ELSE digits_of(n \div 10) \o <<Digits[(n % 10) + 1]>>

\* str(value) of a cell that is not None
py_str(v) ==
  CASE v.kind = "str" -> v.s
    [] v.kind = "nan" -> <<"n", "a", "n">>
    [] v.kind = "num" -> IF v.n < 0 THEN <<"-">> \o digits_of(0 - v.n)
                                    ELSE digits_of(v.n)
    [] v.kind = "frac" -> IF v.f < 0
                            THEN <<"-">> \o digits_of(0 - v.f - 1) \o <<".", "5">>
                            ELSE digits_of(v.f) \o <<".", "5">>
    [] v.kind = "bool" -> IF v.b THEN <<"T", "r", "u", "e">>
                                 ELSE <<"F", "a", "l", "s", "e">>
    [] v.kind = "none" -> <<"N", "o", "n", "e">>
    [] OTHER -> <<"?">>

None == [kind |-> "none"]
NaN == [kind |-> "nan"]
Str(t) == [kind |-> "str", s |-> t]
Num(k) == [kind |-> "num", n |-> k]
Frac(k) == [kind |-> "frac", f |-> k]
Bool(x) == [kind |-> "bool", b |-> x]
Timestamp(y, m, d) == [kind |-> "ts", year |-> y, month |-> m, day |-> d]

\* pd.isna(value) of a scalar
isna(v) == v.kind \in {"none", "nan"}

\* ------------------------------------------------------------------------
\* Keyword sets
\* ------------------------------------------------------------------------
PLANNED_KEYWORDS ==
  { <<"p", "l", "a", "n", "n", "e", "d">>,
    <<"p", "r", "o", "p", "o", "s", "e", "d">>,
    <<"p", "e", "n", "d", "i", "n", "g">>,
    <<"c", "o", "n", "s", "t", "r", "u", "c", "t", "i", "o", "n">>,
    <<"d", "e", "v", "e", "l", "o", "p", "m", "e", "n", "t">>,
    <<"f", "u", "t", "u", "r", "e">> }

OPERATING_KEYWORDS ==
  { <<"o", "p", "e", "r", "a", "t", "i", "n", "g">>,
    <<"o", "p", "e", "r", "a", "t", "i", "o", "n", "a", "l">>,
    <<"a", "c", "t", "i", "v", "e">>,
    <<"o", "n", "l", "i", "n", "e">>,
    <<"i", "n", " ", "o", "p", "e", "r", "a", "t", "i", "o", "n">> }

INOPERATIVE_KEYWORDS ==
  { <<"i", "n", "o", "p", "e", "r", "a", "t", "i", "v", "e">>,
    <<"i", "n", "o", "p", "e", "r", "a", "b", "l", "e">>,
    <<"o", "u", "t", " ", "o", "f", " ", "o", "r", "d", "e", "r">>,
    <<"o", "u", "t", "-", "o", "f", "-", "o", "r", "d", "e", "r">>,
    <<"o", "u", "t", " ", "o", "f", " ", "s", "e", "r", "v", "i", "c", "e">>,
    <<"o", "u", "t", "-", "o", "f", "-", "s", "e", "r", "v", "i", "c", "e">>,
    <<"o", "f", "f", "l", "i", "n", "e">>,
    <<"r", "e", "t", "i", "r", "e", "d">>,
    <<"d", "e", "c", "o", "m", "m", "i", "s", "s", "i", "o", "n", "e", "d">>,
    <<"n", "o", "t", " ", "o", "p", "e", "r", "a", "t", "i", "n", "g">>,
    <<"n", "o", "t", "-", "o", "p", "e", "r", "a", "t", "i", "n", "g">>,
    <<"i", "n", "a", "c", "t", "i", "v", "e">>,
    <<"u", "n", "d", "e", "r", " ", "r", "e", "p", "a", "i", "r">>,
    <<"d", "o", "w", "n">> }

\* the texts classify_status rejects before any keyword test
UNKNOWN_TEXTS ==
  { <<"n", "a">>,
    <<"n", "/", "a">>,
    <<"n", "o", "n", "e">>,
    <<"u", "n", "k", "n", "o", "w", "n">> }

StatusClasses == {"operating", "planned", "inoperative", "unknown"}

\* ------------------------------------------------------------------------
\* Classifier
\* ------------------------------------------------------------------------
normalize_status_keep_case(v) ==
  IF v.kind = "none" THEN <<>> ELSE strip(py_str(v))

normalize_status(v) ==
  IF v.kind = "none" THEN <<>> ELSE lower(strip(py_str(v)))

any_keyword(keywords, text) == \E keyword \in keywords : Contains(keyword, text)

classify_status_inoperative_first(v) ==
  LET text == normalize_status(v) IN
    IF text = <<>> \/ text \in UNKNOWN_TEXTS THEN "unknown"
    ELSE IF any_keyword(INOPERATIVE_KEYWORDS, text) THEN "inoperative"
    ELSE IF any_keyword(OPERATING_KEYWORDS, text) THEN "operating"
    ELSE IF any_keyword(PLANNED_KEYWORDS, text) THEN "planned"
    ELSE "unknown"

classify_status(v) ==
  LET text == normalize_status(v) IN
    IF text = <<>> \/ text \in UNKNOWN_TEXTS THEN "unknown"
    ELSE IF any_keyword(OPERATING_KEYWORDS, text) THEN "operating"
    ELSE IF any_keyword(INOPERATIVE_KEYWORDS, text) THEN "inoperative"
    ELSE IF any_keyword(PLANNED_KEYWORDS, text) THEN "planned"
    ELSE "unknown"

any_status(status, statuses) == \E i \in 1..Len(statuses) : statuses[i] = status

aggregate_status_planned_first(statuses) ==
  IF statuses = <<>> THEN "unknown"
  ELSE IF any_status("operating", statuses) THEN "operating"
  ELSE IF any_status("planned", statuses) THEN "planned"
  ELSE IF any_status("inoperative", statuses) THEN "inoperative"
  ELSE "unknown"

aggregate_status(statuses) ==
  IF statuses = <<>> THEN "unknown"
  ELSE IF any_status("operating", statuses) THEN "operating"
  ELSE IF any_status("inoperative", statuses) THEN "inoperative"
  ELSE IF any_status("planned", statuses) THEN "planned"
  ELSE "unknown"

\* ------------------------------------------------------------------------
\* Display values and derived fields
\* ------------------------------------------------------------------------
two_digits(n) == IF n < 10 THEN <<"0">> \o digits_of(n) ELSE digits_of(n)

\* the text format_value returns, None when it returns None
format_value(v) ==
  IF v.kind = "none" THEN None
  ELSE IF isna(v) THEN None
  ELSE IF v.kind = "ts"
    THEN Str(digits_of(v.year) \o <<"-">> \o two_digits(v.month)
               \o <<"-">> \o two_digits(v.day))
  ELSE IF v.kind = "bool" THEN Str(IF v.b THEN <<"Y", "e", "s">> ELSE <<"N", "o">>)
  ELSE IF v.kind = "num" THEN Str(py_str(v))
  ELSE IF v.kind = "frac" THEN Str(py_str(v))
  ELSE IF v.kind = "str"
    THEN (IF strip(v.s) = <<>> THEN None ELSE Str(strip(v.s)))
  ELSE Str(py_str(v))

UNKNOWN_LABEL == <<"U", "n", "k", "n", "o", "w", "n">>

\* an absent value left blank instead of labelled
format_value_or_blank(v) ==
  IF format_value(v).kind # "none" THEN format_value(v) ELSE Str(<<>>)

format_value_or_unknown(v) ==
  IF format_value(v).kind # "none" THEN format_value(v) ELSE Str(UNKNOWN_LABEL)

upper_char(c) ==
  IF \E i \in 1..Len(LowerCase) : LowerCase[i] = c
    THEN UpperCase[CHOOSE i \in 1..Len(LowerCase) : LowerCase[i] = c]
    ELSE c

\* str.upper()
upper(s) == [i \in 1..Len(s) |-> upper_char(s[i])]

\* s.split("-")[-1]
RECURSIVE last_segment(_)
last_segment(s) ==
  IF \E i \in 1..Len(s) : s[i] = "-"
    THEN last_segment(Tail(s))
    ELSE s

SOLAR_PV == <<"S", "o", "l", "a", "r", " ", "P", "V">>

BATTERY_ENERGY_STORAGE ==
  <<"B", "a", "t", "t", "e", "r", "y", " ", "E", "n", "e", "r", "g", "y", " ", "S", "t", "o", "r", "a", "g", "e">>

\* the suffix compared as written, without upper()
infer_system_type_keep_case(system_id) ==
  IF system_id.kind # "str" \/ system_id.s = <<>> THEN UNKNOWN_LABEL
  ELSE LET suffix == last_segment(strip(system_id.s)) IN
    IF suffix = <<"P">> THEN SOLAR_PV
    ELSE IF suffix = <<"B">> THEN BATTERY_ENERGY_STORAGE
    ELSE UNKNOWN_LABEL

infer_system_type(system_id) ==
  IF system_id.kind # "str" \/ system_id.s = <<>> THEN UNKNOWN_LABEL
  ELSE LET suffix == upper(last_segment(strip(system_id.s))) IN
    IF suffix = <<"P">> THEN SOLAR_PV
    ELSE IF suffix = <<"B">> THEN BATTERY_ENERGY_STORAGE
    ELSE UNKNOWN_LABEL

\* ------------------------------------------------------------------------
\* Install year
\* ------------------------------------------------------------------------
IsDigit(c) == \E i \in 1..Len(Digits) : Digits[i] = c

DigitValue(c) == (CHOOSE i \in 1..Len(Digits) : Digits[i] = c) - 1

\* int(text) of a text of digits
RECURSIVE int_of(_)
int_of(s) ==
  IF s = <<>> THEN 0
  ELSE 10 * int_of(SubSeq(s, 1, Len(s) - 1)) + DigitValue(s[Len(s)])

\* the pattern (19|20)\d{2} matches at position i
year_pattern_at(text, i) ==
  /\ i + 3 <= Len(text)
  /\ SubSeq(text, i, i + 1) \in {<<"1", "9">>, <<"2", "0">>}
  /\ IsDigit(text[i + 2])
  /\ IsDigit(text[i + 3])

\* re.search: the position of the leftmost match from i on, 0 when none
RECURSIVE re_search_year(_, _)
re_search_year(text, i) ==
  IF i + 3 > Len(text) THEN 0
  ELSE IF year_pattern_at(text, i) THEN i
  ELSE re_search_year(text, i + 1)

\* the position of the rightmost match up to i, 0 when none
RECURSIVE re_search_year_last(_, _)
re_search_year_last(text, i) ==
  IF i < 1 THEN 0
  ELSE IF year_pattern_at(text, i) THEN i
  ELSE re_search_year_last(text, i - 1)

parse_install_year_last_match(v) ==
  IF v.kind = "none" THEN None
  ELSE IF isna(v) THEN None
  ELSE IF v.kind = "ts" THEN Num(v.year)
  ELSE IF v.kind = "num"
    THEN (IF 1000 <= v.n /\ v.n <= 3000 THEN Num(v.n) ELSE None)
  ELSE IF v.kind \in {"frac", "bool"} THEN None
  ELSE IF v.kind = "str"
    THEN LET text == strip(v.s)
             at == re_search_year_last(text, Len(text))
         IN IF text = <<>> THEN None
            ELSE IF at # 0 THEN Num(int_of(SubSeq(text, at, at + 3)))
            ELSE None
  ELSE None

\* the year as a "num" cell, None when parse_install_year returns None
parse_install_year(v) ==
  IF v.kind = "none" THEN None
  ELSE IF isna(v) THEN None
  ELSE IF v.kind = "ts" THEN Num(v.year)
  ELSE IF v.kind = "num"
    THEN (IF 1000 <= v.n /\ v.n <= 3000 THEN Num(v.n) ELSE None)
  ELSE IF v.kind \in {"frac", "bool"} THEN None
  ELSE IF v.kind = "str"
    THEN LET text == strip(v.s)
             at == re_search_year(text, 1)
         IN IF text = <<>> THEN None
            ELSE IF at # 0 THEN Num(int_of(SubSeq(text, at, at + 3)))
            ELSE None
  ELSE None

get_system_install_year(row) ==
  IF parse_install_year(row.bess_install_date).kind # "none"
    THEN parse_install_year(row.bess_install_date)
  ELSE IF parse_install_year(row.pv_install_date).kind # "none"
    THEN parse_install_year(row.pv_install_date)
  ELSE None

\* ------------------------------------------------------------------------
\* Pin color category
\* ------------------------------------------------------------------------
COLOR_SCALE ==
  [ diesels_off_operating |-> <<34, 139, 34, 220>>,
    diesels_off_planned |-> <<255, 165, 0, 220>>,
    non_diesels_off_operating |-> <<65, 105, 225, 220>>,
    non_diesels_off_planned |-> <<120, 120, 120, 220>> ]

\* series.astype(str).str.strip().str.lower() of one cell
as_stripped_lower(v) == lower(strip(py_str(v)))

mask_operating(row) ==
  as_stripped_lower(row.status) = <<"o", "p", "e", "r", "a", "t", "i", "n", "g">>

mask_enables(row) == as_stripped_lower(row.enables) = <<"y", "e", "s">>

any_operating(group) == \E i \in 1..Len(group) : mask_operating(group[i])

any_enables(group) == \E i \in 1..Len(group) : mask_enables(group[i])

any_operating_and_enables(group) ==
  \E i \in 1..Len(group) : mask_operating(group[i]) /\ mask_enables(group[i])

determine_color_category_operating_first(group) ==
  IF group # <<>> /\ any_operating_and_enables(group) THEN "diesels_off_operating"
  ELSE IF group # <<>> /\ any_operating(group)
    THEN "non_diesels_off_operating"
  ELSE IF group # <<>> /\ any_enables(group) THEN "diesels_off_planned"
  ELSE "non_diesels_off_planned"

determine_color_category(group) ==
  IF group # <<>> /\ any_operating_and_enables(group) THEN "diesels_off_operating"
  ELSE IF group # <<>> /\ any_enables(group) THEN "diesels_off_planned"
  ELSE IF group # <<>> /\ any_operating(group)
    THEN "non_diesels_off_operating"
  ELSE "non_diesels_off_planned"

\* COLOR_SCALE.get(category, COLOR_SCALE["non_diesels_off_planned"])
color_of(category) ==
  IF category \in DOMAIN COLOR_SCALE
    THEN COLOR_SCALE[category]
    ELSE COLOR_SCALE["non_diesels_off_planned"]

\* ------------------------------------------------------------------------
\* Ordering of cells and texts
\* ------------------------------------------------------------------------
\* comparison of two texts by code points: -1, 0 or 1
RECURSIVE str_cmp(_, _)
str_cmp(a, b) ==
  IF a = <<>> /\ b = <<>> THEN 0
  ELSE IF a = <<>> THEN 0 - 1
  ELSE IF b = <<>> THEN 1
  ELSE IF Code(Head(a)) < Code(Head(b)) THEN 0 - 1
  ELSE IF Code(Head(a)) > Code(Head(b)) THEN 1
  ELSE str_cmp(Tail(a), Tail(b))

int_cmp(a, b) == IF a < b THEN 0 - 1 ELSE IF a > b THEN 1 ELSE 0

\* values of one column (all numbers or all texts), missing values first
cell_cmp_na_first(a, b) ==
  IF isna(a) /\ isna(b) THEN 0
  ELSE IF isna(a) THEN 0 - 1
  ELSE IF isna(b) THEN 1
  ELSE IF a.kind = "num" /\ b.kind = "num" THEN int_cmp(a.n, b.n)
  ELSE str_cmp(py_str(a), py_str(b))

\* values of one column (all numbers or all texts), na_position="last"
cell_cmp(a, b) ==
  IF isna(a) /\ isna(b) THEN 0
  ELSE IF isna(a) THEN 1
  ELSE IF isna(b) THEN 0 - 1
  ELSE IF a.kind = "num" /\ b.kind = "num" THEN int_cmp(a.n, b.n)
  ELSE str_cmp(py_str(a), py_str(b))

\* the sorted group keys of a groupby, a missing key last
RECURSIVE sorted_keys(_)
sorted_keys(keys) ==
  IF keys = {} THEN <<>>
  ELSE LET least == CHOOSE k \in keys : \A other \in keys : cell_cmp(k, other) <= 0
       IN <<least>> \o sorted_keys(keys \ {least})

\* ------------------------------------------------------------------------
\* Markup and links
\* ------------------------------------------------------------------------
html_escape_char(c) ==
  CASE c = "&" -> <<"&", "a", "m", "p", ";">>
    [] c = "<" -> <<"&", "l", "t", ";">>
    [] c = ">" -> <<"&", "g", "t", ";">>
    [] c = "\"" -> <<"&", "q", "u", "o", "t", ";">>
    [] c = "'" -> <<"&", "#", "x", "2", "7", ";">>
    [] OTHER -> <<c>>

\* html.escape
RECURSIVE html_escape(_)
html_escape(s) ==
  IF s = <<>> THEN <<>> ELSE html_escape_char(Head(s)) \o html_escape(Tail(s))

quote_plus_char(c) ==
  CASE c = " " -> <<"+">>
    [] c = "\t" -> <<"%", "0", "9">>
    [] c = "\"" -> <<"%", "2", "2">>
    [] c = "#" -> <<"%", "2", "3">>
    [] c = "%" -> <<"%", "2", "5">>
    [] c = "&" -> <<"%", "2", "6">>
    [] c = "'" -> <<"%", "2", "7">>
    [] c = "+" -> <<"%", "2", "B">>
    [] c = "/" -> <<"%", "2", "F">>
    [] c = ";" -> <<"%", "3", "B">>
    [] c = "<" -> <<"%", "3", "C">>
    [] c = ">" -> <<"%", "3", "E">>
    [] OTHER -> <<c>>

\* urllib.parse.quote_plus
RECURSIVE quote_plus(_)
quote_plus(s) ==
  IF s = <<>> THEN <<>> ELSE quote_plus_char(Head(s)) \o quote_plus(Tail(s))

\* the character a percent escape of quote_plus stands for, "" when the
\* three characters are not one of its escapes
unquote_escape(code) ==
  CASE code = <<"%", "0", "9">> -> "\t"
    [] code = <<"%", "2", "2">> -> "\""
    [] code = <<"%", "2", "3">> -> "#"
    [] code = <<"%", "2", "5">> -> "%"
    [] code = <<"%", "2", "6">> -> "&"
    [] code = <<"%", "2", "7">> -> "'"
    [] code = <<"%", "2", "B">> -> "+"
    [] code = <<"%", "2", "F">> -> "/"
    [] code = <<"%", "3", "B">> -> ";"
    [] code = <<"%", "3", "C">> -> "<"
    [] code = <<"%", "3", "E">> -> ">"
    [] OTHER -> ""

\* urllib.parse.unquote_plus: "+" is a space, a percent escape is its
\* character, and each character of the text is decoded once
RECURSIVE unquote_plus(_)
unquote_plus(s) ==
  IF s = <<>> THEN <<>>
  ELSE IF Head(s) = "+" THEN <<" ">> \o unquote_plus(Tail(s))
  ELSE IF Len(s) >= 3 /\ unquote_escape(SubSeq(s, 1, 3)) # ""
    THEN <<unquote_escape(SubSeq(s, 1, 3))>> \o unquote_plus(SubSeq(s, 4, Len(s)))
  ELSE <<Head(s)>> \o unquote_plus(Tail(s))

\* the text before the first separator, the whole text when there is none
RECURSIVE before_first(_, _)
before_first(s, sep) ==
  IF s = <<>> \/ Head(s) = sep THEN <<>>
  ELSE <<Head(s)>> \o before_first(Tail(s), sep)

\* the text after the first separator, empty when there is none
after_first(s, sep) ==
  SubSeq(s, Len(before_first(s, sep)) + 2, Len(s))

\* s.split(sep)
RECURSIVE split(_, _)
split(s, sep) ==
  IF Len(before_first(s, sep)) = Len(s) THEN <<s>>
  ELSE <<before_first(s, sep)>> \o split(after_first(s, sep), sep)

\* st.query_params.get(name) on a page opened with the query "?...": the
\* fields between "&" are split at their first "=" and decoded, and the
\* last value given for the name is returned, None when there is none
query_params_get(search, name) ==
  LET fields == split(Tail(search), "&")
      named(field) == unquote_plus(before_first(field, "=")) = name
      values == SelectSeq(fields, named)
  IN IF values = <<>> THEN None
     ELSE Str(unquote_plus(after_first(values[Len(values)], "=")))

\* ------------------------------------------------------------------------
\* System card details
\* ------------------------------------------------------------------------
\* the (label, column) pairs of the field lists; html.escape leaves every
\* label as it is, none holds a character it replaces
BASE_FIELDS ==
  << <<"Enables Diesels-Off", "Enables Diesels-Off (yes/no)">>,
     <<"Supports Diesels-Off", "Supports Diesels-Off (yes/no)">>,
     <<"Funding Announcement", "Funding Anncouncement Number">>,
     <<"Award Number", "Award Number">> >>

PV_CAPACITY_FIELDS ==
  << <<"PV DC Capacity (kWdc)", "PV DC Capacity (kWdc)">>,
     <<"PV AC Capacity (kWac)", "PV AC Capacity (kWac)">> >>

PV_ADDITIONAL_FIELDS ==
  << <<"Number of PV Modules", "Number of PV Modules">>,
     <<"PV Module Manufacturer", "PV Module Manufacturer">>,
     <<"PV Module Model", "PV Module Model">>,
     <<"PV Inverter Manufacturer", "PV Inverter Manufacturer">>,
     <<"PV Inverter Model", "PV Inverter Model">>,
     <<"PV Installation Manager", "PV Installation Manager">>,
     <<"PV Owner", "PV Owner">>,
     <<"PV Ownership Structure", "PV Ownership Structure">> >>

BESS_CAPACITY_FIELDS ==
  << <<"Capacity (kWh)", "BESS Capacity (kWh)">>,
     <<"Throughput (kW)", "BESS Throughput (kW)">> >>

BESS_EQUIPMENT_FIELDS ==
  << <<"Manufacturer", "BESS Manufacturer">>,
     <<"Model", "BESS Model">>,
     <<"Inverter Manufacturer", "BESS Inverter Manufacturer">>,
     <<"Inverter Model", "BESS Inverter Model">> >>

BESS_OWNERSHIP_FIELDS ==
  << <<"Owner", "BESS Owner">>,
     <<"Installation Manager", "BESS Installation Manager">> >>

BESS_OTHER_FIELDS ==
  << <<"Ownership Structure", "BESS Ownership Structure">> >>

ENABLES_COLUMN == "Enables Diesels-Off (yes/no)"

\* the columns of the field lists a row keeps under "columns"
DetailColumns ==
  LET fields == BASE_FIELDS \o PV_CAPACITY_FIELDS \o PV_ADDITIONAL_FIELDS
                  \o BESS_CAPACITY_FIELDS \o BESS_EQUIPMENT_FIELDS
                  \o BESS_OWNERSHIP_FIELDS \o BESS_OTHER_FIELDS
  IN { fields[i][2] : i \in 1..Len(fields) } \ {ENABLES_COLUMN}

\* row.get(column): None for a column the dataset does not have
row_get(row, column) ==
  IF column = ENABLES_COLUMN THEN row.enables
  ELSE IF column \in DOMAIN row.columns THEN row.columns[column]
  ELSE None

\* [(label, row.get(column)) for label, column in fields]
pairs_of(row, fields) ==
  [i \in 1..Len(fields) |-> <<fields[i][1], row_get(row, fields[i][2])>>]

\* "<li>No additional parameters available</li>"; the empty text is <<>>
NO_PARAMETERS_MESSAGE ==
  << [kind |-> "message", text |-> "No additional parameters available"] >>

\* the <li> elements build_list_items returns
build_list_items(pairs, empty_message) ==
  LET has_value(pair) == format_value(pair[2]).kind # "none"
      present == SelectSeq(pairs, has_value)
      items == [i \in 1..Len(present) |->
                  [ kind |-> "item",
                    label |-> present[i][1],
                    value |-> html_escape(format_value(present[i][2]).s) ]]
  IN IF items = <<>> THEN empty_message ELSE items

\* [(label, format_value_or_unknown(row.get(column))) for label, column in fields]
info_items(row, fields) ==
  [i \in 1..Len(fields) |->
     <<fields[i][1], format_value_or_unknown(row_get(row, fields[i][2])).s>>]

build_info_group(title, items) ==
  [ title |-> title,
    cells |-> [i \in 1..Len(items) |->
                 [label |-> items[i][1], value |-> html_escape(items[i][2])]] ]

\* the info groups and the <ul> lists of a battery card, in page order
build_bess_detail_html(row, base_pairs) ==
  LET capacity_html ==
        build_info_group("Capacity & Throughput", info_items(row, BESS_CAPACITY_FIELDS))
      equipment_html ==
        build_info_group("Equipment", info_items(row, BESS_EQUIPMENT_FIELDS))
      ownership_html ==
        build_info_group("Ownership", info_items(row, BESS_OWNERSHIP_FIELDS))
      other_pairs == base_pairs \o pairs_of(row, BESS_OTHER_FIELDS)
      other_list_items == build_list_items(other_pairs, <<>>)
  IN [ groups |-> <<capacity_html, equipment_html, ownership_html>>,
       lists |-> IF other_list_items # <<>> THEN <<other_list_items>> ELSE <<>> ]

\* the info group and the <ul> list of a solar card
build_pv_detail_html(row, base_pairs) ==
  LET capacity_html ==
        build_info_group("Capacity (DC & AC)", info_items(row, PV_CAPACITY_FIELDS))
      parameter_pairs == pairs_of(row, PV_ADDITIONAL_FIELDS)
      list_items == build_list_items(base_pairs \o parameter_pairs, NO_PARAMETERS_MESSAGE)
  IN [ groups |-> <<capacity_html>>, lists |-> <<list_items>> ]

\* ------------------------------------------------------------------------
\* Project section
\* ------------------------------------------------------------------------
TBD_LABEL == <<"T", "B", "D">>

format_install_year_text(year, status_class) ==
  IF ~isna(year) THEN digits_of(year.n)
  ELSE IF status_class = "planned" THEN TBD_LABEL
  ELSE UNKNOWN_LABEL

\* the sort columns of a row: _install_year, System Name, System ID Number
sort_columns(row) ==
  <<get_system_install_year(row), row.system_name, row.system_id>>

\* comparison of two rows on the sort columns in turn
row_cmp(a, b) ==
  LET ka == sort_columns(a)
      kb == sort_columns(b)
  IN IF cell_cmp(ka[1], kb[1]) # 0 THEN cell_cmp(ka[1], kb[1])
     ELSE IF cell_cmp(ka[2], kb[2]) # 0 THEN cell_cmp(ka[2], kb[2])
     ELSE cell_cmp(ka[3], kb[3])

\* a row placed into sorted rows behind every row that is not greater
RECURSIVE insert_row(_, _)
insert_row(sorted, row) ==
  IF sorted = <<>> THEN <<row>>
  ELSE IF row_cmp(row, Head(sorted)) < 0 THEN <<row>> \o sorted
  ELSE <<Head(sorted)>> \o insert_row(Tail(sorted), row)

\* systems_df.sort_values(sort_columns, na_position="last")
RECURSIVE sort_values(_)
sort_values(rows) ==
  IF rows = <<>> THEN <<>>
  ELSE insert_row(sort_values(SubSeq(rows, 1, Len(rows) - 1)), rows[Len(rows)])

\* the latest of the defined years instead of the earliest
project_first_year_latest(rows) ==
  LET years == { get_system_install_year(rows[i]) : i \in 1..Len(rows) }
      defined == { y \in years : ~isna(y) }
  IN IF defined = {} THEN None
     ELSE CHOOSE y \in defined : \A other \in defined : y.n >= other.n

\* year_series.min() over the defined years, None when there is none
project_first_year(rows) ==
  LET years == { get_system_install_year(rows[i]) : i \in 1..Len(rows) }
      defined == { y \in years : ~isna(y) }
  IN IF defined = {} THEN None
     ELSE CHOOSE y \in defined : \A other \in defined : y.n <= other.n

SYSTEM_DETAILS == <<"S", "y", "s", "t", "e", "m", " ", "D", "e", "t", "a", "i", "l", "s">>

PROJECT_LABEL == <<"P", "r", "o", "j", "e", "c", "t">>

\* the card of one system: the row it renders, its heading, badge and year
build_system_section(row, status_class, install_year) ==
  LET system_name == format_value(row.system_name)
      system_type_label == format_value(Str(row.system_type))
      heading == IF system_name.kind # "none" THEN system_name.s
                 ELSE IF system_type_label.kind # "none" THEN system_type_label.s
                 ELSE SYSTEM_DETAILS
      emoji == IF row.system_type = BATTERY_ENERGY_STORAGE THEN "battery"
               ELSE IF row.system_type = SOLAR_PV THEN "sun"
               ELSE "none"
      base_pairs == pairs_of(row, BASE_FIELDS)
      detail_content ==
        IF row.system_type = BATTERY_ENERGY_STORAGE
          THEN build_bess_detail_html(row, base_pairs)
        ELSE IF row.system_type = SOLAR_PV
          THEN build_pv_detail_html(row, base_pairs)
        ELSE [ groups |-> <<>>,
               lists |-> <<build_list_items(base_pairs, NO_PARAMETERS_MESSAGE)>> ]
  IN [ row |-> row.index,
       emoji |-> emoji,
       heading |-> html_escape(heading),
       status_class |-> status_class,
       install_year_text |-> html_escape(format_install_year_text(install_year, status_class)),
       detail_content |-> detail_content ]

build_project_section(project_df) ==
  LET project_name == format_value(project_df[1].project_name)
      header == IF project_name.kind # "none" THEN project_name.s ELSE PROJECT_LABEL
      systems_df == sort_values(project_df)
      project_status ==
        aggregate_status([i \in 1..Len(systems_df) |-> classify_status(systems_df[i].status)])
      project_year == project_first_year(systems_df)
  IN [ header |-> html_escape(header),
       status |-> project_status,
       year_text |-> html_escape(format_install_year_text(project_year, project_status)),
       systems |-> [i \in 1..Len(systems_df) |->
                      build_system_section(systems_df[i],
                                           classify_status(systems_df[i].status),
                                           get_system_install_year(systems_df[i]))] ]

\* ------------------------------------------------------------------------
\* Community tooltip
\* ------------------------------------------------------------------------
\* the project groups without the rows that have no project identifier
project_groups_of_dropna(community_df) ==
  LET ids == { community_df[i].project_id : i \in 1..Len(community_df) }
      keys == sorted_keys({ k \in ids : ~isna(k) })
  IN [ k \in 1..Len(keys) |->
         LET in_project(row) == row.project_id = keys[k]
         IN [ project_id |-> keys[k], rows |-> SelectSeq(community_df, in_project) ] ]

\* list(community_df.groupby("Project ID Number", dropna=False))
project_groups_of(community_df) ==
  LET keys == sorted_keys({ community_df[i].project_id : i \in 1..Len(community_df) })
  IN [ k \in 1..Len(keys) |->
         LET in_project(row) == row.project_id = keys[k]
         IN [ project_id |-> keys[k], rows |-> SelectSeq(community_df, in_project) ] ]

\* the key a project group is sorted by, names compared as written
sort_key_keep_case(item) ==
  LET name == format_value(item.rows[1].project_name)
      fallback == format_value(item.project_id)
  IN IF name.kind # "none" THEN <<0, name.s>>
     ELSE IF fallback.kind # "none" THEN <<1, fallback.s>>
     ELSE <<1, <<>> >>

\* the key a project group is sorted by: (0, name) or (1, identifier), casefolded
sort_key(item) ==
  LET name == format_value(item.rows[1].project_name)
      fallback == format_value(item.project_id)
  IN IF name.kind # "none" THEN <<0, lower(name.s)>>
     ELSE IF fallback.kind # "none" THEN <<1, lower(fallback.s)>>
     ELSE <<1, <<>> >>

\* comparison of two sort keys as Python compares tuples
sort_key_cmp(ka, kb) ==
  IF ka[1] # kb[1] THEN int_cmp(ka[1], kb[1]) ELSE str_cmp(ka[2], kb[2])

RECURSIVE insert_group(_, _)
insert_group(sorted, item) ==
  IF sorted = <<>> THEN <<item>>
  ELSE IF sort_key_cmp(sort_key(item), sort_key(Head(sorted))) < 0
    THEN <<item>> \o sorted
  ELSE <<Head(sorted)>> \o insert_group(Tail(sorted), item)

\* project_groups.sort(key=sort_key)
RECURSIVE sort_groups(_)
sort_groups(items) ==
  IF items = <<>> THEN <<>>
  ELSE insert_group(sort_groups(SubSeq(items, 1, Len(items) - 1)), items[Len(items)])

build_tooltip_html(community, community_df) ==
  LET project_groups == sort_groups(project_groups_of(community_df))
  IN [ community |-> html_escape(community),
       projects |-> [k \in 1..Len(project_groups) |->
                       build_project_section(project_groups[k].rows)] ]

\* ------------------------------------------------------------------------
\* Community records
\* ------------------------------------------------------------------------
\* a text float() accepts: an optional sign and digits (decimal literals are
\* not among the coordinate texts of the model)
is_number_text(s) ==
  LET text == strip(s)
      body == IF text # <<>> /\ Head(text) = "-" THEN Tail(text) ELSE text
  IN body # <<>> /\ \A i \in 1..Len(body) : IsDigit(body[i])

\* astype(float) raises ValueError on this cell
float_raises(v) == v.kind = "str" /\ ~is_number_text(v.s)

\* float(value) of a cell that float() accepts
float_of(v) ==
  IF v.kind = "num" THEN v.n
  ELSE LET text == strip(v.s)
       IN IF Head(text) = "-" THEN 0 - int_of(Tail(text)) ELSE int_of(text)

RECURSIVE sum_of(_)
sum_of(numbers) ==
  IF numbers = <<>> THEN 0 ELSE Head(numbers) + sum_of(Tail(numbers))

\* series.mean() as the fraction sum / count
mean_of(numbers) == [ sum |-> sum_of(numbers), count |-> Len(numbers) ]

\* the rows groupby("Community Name", dropna=True) puts under one name
community_group(frame, community) ==
  LET in_community(row) == row.community = community
  IN SelectSeq(frame, in_community)

\* group[["Longitude", "Latitude"]].dropna(), per column
dropna_per_column(group) ==
  LET has_longitude(row) == ~isna(row.longitude)
      has_latitude(row) == ~isna(row.latitude)
  IN [ longitude |-> SelectSeq(group, has_longitude),
       latitude |-> SelectSeq(group, has_latitude) ]

\* group[["Longitude", "Latitude"]].dropna()
dropna_coords(group) ==
  LET has_both(row) == ~isna(row.longitude) /\ ~isna(row.latitude)
      coords == SelectSeq(group, has_both)
  IN [ longitude |-> coords, latitude |-> coords ]

\* one iteration of the loop raises in astype(float)
community_raises(frame, community) ==
  LET coords == dropna_coords(community_group(frame, community))
  IN \/ \E i \in 1..Len(coords.longitude) : float_raises(coords.longitude[i].longitude)
     \/ \E i \in 1..Len(coords.latitude) : float_raises(coords.latitude[i].latitude)

\* the record one iteration of the loop appends
community_record(frame, community) ==
  LET group == community_group(frame, community)
      coords == dropna_coords(group)
      has_pv == \E i \in 1..Len(group) : group[i].system_type = SOLAR_PV
      has_bess == \E i \in 1..Len(group) : group[i].system_type = BATTERY_ENERGY_STORAGE
      category == determine_color_category(group)
  IN [ community |-> community.s,
       longitude |-> mean_of([i \in 1..Len(coords.longitude) |->
                                float_of(coords.longitude[i].longitude)]),
       latitude |-> mean_of([i \in 1..Len(coords.latitude) |->
                               float_of(coords.latitude[i].latitude)]),
       color |-> color_of(category),
       tooltip_html |-> build_tooltip_html(community.s, group),
       label |-> [ text |-> community.s,
                   icons |-> (IF has_pv THEN <<"sun">> ELSE <<>>)
                               \o (IF has_bess THEN <<"battery">> ELSE <<>>) ],
       category |-> category,
       detail_url |-> <<"?", "c", "o", "m", "m", "u", "n", "i", "t", "y", "=">>
                        \o quote_plus(community.s) ]

\* the outcome of create_community_records: the list it returns, or raised
create_community_records(frame) ==
  LET names == { frame[i].community : i \in 1..Len(frame) }
      communities == sorted_keys({ c \in names : ~isna(c) })
      has_coords(c) == dropna_coords(community_group(frame, c)).longitude # <<>>
      kept == SelectSeq(communities, has_coords)
  IN IF \E k \in 1..Len(kept) : community_raises(frame, kept[k])
       THEN [ raised |-> TRUE, records |-> <<>> ]
       ELSE [ raised |-> FALSE,
              records |-> [k \in 1..Len(kept) |-> community_record(frame, kept[k])] ]

\* the derived columns written to the rows of the dataset itself
data_after_records_in_place(frame) ==
  [i \in 1..Len(frame) |->
     [ _status_class |-> classify_status(frame[i].status),
       _install_year |-> get_system_install_year(frame[i]) ] @@ frame[i]]

\* the dataset as its owner sees it after create_community_records: the
\* function only reads it; _status_class and _install_year are assigned to
\* systems_df, a copy of the group (project_df.copy())
data_after_records(frame) == frame

\* ------------------------------------------------------------------------
\* Inputs of the classifier
\* ------------------------------------------------------------------------
StatusFragments ==
  { <<"i", "n">>,
    <<"a", "c", "t", "i", "v", "e">>,
    <<"A", "c", "t", "i", "v", "e">>,
    <<"n", "o", "t", " ">>,
    <<"O", "P", "E", "R", "A", "T", "I", "N", "G">>,
    <<"o", "p", "e", "r", "a", "t", "i", "o", "n">>,
    <<"o", "f", "f", "l", "i", "n", "e">>,
    <<"P", "l", "a", "n", "n", "e", "d">>,
    <<" ">>,
    <<"x">>,
    <<"u", "n">>,
    <<"k", "n", "o", "w", "n">>,
    <<"n", "/", "a">> }

RECURSIVE Concats(_, _)
Concats(frags, n) ==
  IF n = 0 THEN {<<>>}
  ELSE LET shorter == Concats(frags, n - 1) IN
         shorter \cup {t \o f : t \in shorter, f \in frags}

StatusValues ==
  {None, NaN, Num(0)} \cup {Str(t) : t \in Concats(StatusFragments, MaxFrags)}

RECURSIVE SeqsUpTo(_, _)
SeqsUpTo(S, n) ==
  IF n = 0 THEN {<<>>}
  ELSE LET shorter == SeqsUpTo(S, n - 1) IN
         shorter \cup {Append(q, x) : q \in shorter, x \in S}

StatusLists == SeqsUpTo(StatusClasses \cup {"other"}, MaxStatuses)

\* status texts made of one inoperative keyword, on its own or with words
\* around it that hold no keyword
InoperativePrefixes == { <<>>, <<"U", "n", "i", "t", " ">>, <<" ">> }

InoperativeSuffixes == { <<>>, <<" ", "(", "2", "x", ")">>, <<"!">> }

InoperativeValues ==
  { Str(prefix \o keyword \o suffix) :
      prefix \in InoperativePrefixes,
      keyword \in INOPERATIVE_KEYWORDS,
      suffix \in InoperativeSuffixes }

\* ------------------------------------------------------------------------
\* Rows of the dataset
\* ------------------------------------------------------------------------
\* one row of the frame load_data returns; index is the row label
BaseRow ==
  [ index |-> 1,
    community |-> Str(<<"A">>),
    project_id |-> Num(1),
    project_name |-> NaN,
    system_name |-> NaN,
    system_id |-> NaN,
    status |-> NaN,
    enables |-> NaN,
    longitude |-> NaN,
    latitude |-> NaN,
    bess_install_date |-> NaN,
    pv_install_date |-> NaN,
    system_type |-> UNKNOWN_LABEL,
    columns |-> [column \in DetailColumns |-> NaN] ]

ColorStatuses ==
  { NaN,
    Str(<<"O", "p", "e", "r", "a", "t", "i", "n", "g">>),
    Str(<<" ", "o", "p", "e", "r", "a", "t", "i", "n", "g", " ">>),
    Str(<<"O", "p", "e", "r", "a", "t", "i", "o", "n", "a", "l">>),
    Str(<<"P", "l", "a", "n", "n", "e", "d">>) }

ColorEnables ==
  { NaN,
    Str(<<"y", "e", "s">>),
    Str(<<" ", "Y", "E", "S", " ">>),
    Str(<<"n", "o">>) }

ColorRow(i, status, enables) ==
  [BaseRow EXCEPT !.index = i, !.status = status, !.enables = enables]

ColorCells == ColorStatuses \X ColorEnables

\* a group groupby hands to determine_color_category: never empty
ColorGroup(n, f) == [i \in 1..n |-> ColorRow(i, f[i][1], f[i][2])]

YearFragments ==
  { <<"1", "9">>, <<"2", "0">>, <<"1">>, <<"0">>, <<"5">>, <<"x">>, <<" ">> }

YearValues ==
  { None, NaN,
    Timestamp(2021, 3, 4), Timestamp(1850, 12, 31),
    Num(0), Num(999), Num(1000), Num(2019), Num(3000), Num(3001), Num(0 - 2019),
    Frac(2019), Bool(TRUE), Bool(FALSE) }
    \cup {Str(t) : t \in Concats(YearFragments, MaxYearFrags)}

\* load_data: the System Type of each row is inferred from its identifier
load_data(rows) ==
  [i \in 1..Len(rows) |->
     [rows[i] EXCEPT !.system_type = infer_system_type(rows[i].system_id)]]

\* frames for create_community_records: the community, coordinates and
\* project of each row vary; a coordinate text stands for a Longitude column
\* read as text because one of its cells is not a number
RecordCommunities == { NaN, Str(<<"A">>), Str(<<"B">>) }

RecordCoords ==
  { <<NaN, Num(6)>>, <<Num(2), Num(6)>>, <<Num(4), Num(10)>>, <<Str(<<"x">>), Num(6)>> }

RecordProjects == { NaN, Num(1) }

RecordRow(i, community, coords, project_id) ==
  [BaseRow EXCEPT !.index = i, !.community = community,
                  !.longitude = coords[1], !.latitude = coords[2],
                  !.project_id = project_id]

RecordCells == RecordCommunities \X RecordCoords \X RecordProjects

RecordFrame(n, f) ==
  load_data([i \in 1..n |-> RecordRow(i, f[i][1], f[i][2], f[i][3])])

\* frames for build_project_section: the rows of one project; the install
\* dates, the name and the identifier of each system vary
ProjectDates ==
  { <<NaN, NaN>>,
    <<Num(2019), NaN>>,
    <<NaN, Str(<<"2", "0", "1", "7", "-", "0", "6">>)>> }

ProjectSystemNames == { NaN, Str(<<"a">>), Str(<<"B">>) }

ProjectSystemIds == { Str(<<"X", "-", "1", "-", "P">>), Str(<<"X", "-", "2", "-", "B">>) }

ProjectRow(i, dates, system_name, system_id) ==
  [BaseRow EXCEPT !.index = i, !.bess_install_date = dates[1],
                  !.pv_install_date = dates[2],
                  !.system_name = system_name, !.system_id = system_id]

ProjectCells == ProjectDates \X ProjectSystemNames \X ProjectSystemIds

ProjectFrame(n, f) ==
  load_data([i \in 1..n |-> ProjectRow(i, f[i][1], f[i][2], f[i][3])])

\* frames for build_tooltip_html: the rows of one community; the project
\* identifier and the project name of each row vary
TooltipProjectIds == { NaN, Str(<<"a", "1">>), Str(<<"A", "1">>), Str(<<"B", "2">>) }

TooltipProjectNames == { NaN, Str(<<" ">>), Str(<<"b">>), Str(<<"B">>), Str(<<"C">>) }

TooltipRow(i, project_id, project_name) ==
  [BaseRow EXCEPT !.index = i, !.project_id = project_id,
                  !.project_name = project_name]

TooltipCells == TooltipProjectIds \X TooltipProjectNames

TooltipFrame(n, f) ==
  load_data([i \in 1..n |-> TooltipRow(i, f[i][1], f[i][2])])

\* frames for the first install year of a project: the install dates and the
\* status of each system vary
FirstYearDates ==
  { <<NaN, NaN>>,
    <<Num(2019), NaN>>,
    <<NaN, Str(<<"2", "0", "1", "7", "-", "0", "6">>)>>,
    <<Num(2021), Str(<<"2", "0", "1", "7", "-", "0", "6">>)>> }

FirstYearStatuses ==
  { NaN,
    Str(<<"P", "l", "a", "n", "n", "e", "d">>),
    Str(<<"O", "p", "e", "r", "a", "t", "i", "n", "g">>) }

FirstYearRow(i, dates, status) ==
  [BaseRow EXCEPT !.index = i, !.bess_install_date = dates[1],
                  !.pv_install_date = dates[2], !.status = status]

FirstYearCells == FirstYearDates \X FirstYearStatuses

FirstYearFrame(n, f) ==
  load_data([i \in 1..n |-> FirstYearRow(i, f[i][1], f[i][2])])

\* identifiers for load_data: a missing cell, a number, and texts put together
\* from fragments (an empty cell is read as missing, never as an empty text)
IdFragments ==
  { <<"A", "B", "C">>, <<"-">>, <<"1">>, <<"P">>, <<"p">>, <<"B">>, <<"b">>, <<" ">> }

IdValues ==
  {NaN, Num(7)} \cup {Str(t) : t \in Concats(IdFragments, MaxIdFrags) \ {<<>>}}

IdRow(system_id) == [BaseRow EXCEPT !.system_id = system_id]

\* rows for build_system_section: the identifier, and with it the System
\* Type, varies, and so do the cells of a column of each field list
CardIds ==
  { NaN, Str(<<"X", "-", "1", "-", "P">>), Str(<<"X", "-", "2", "-", "B">>) }

CardColumns ==
  { "PV DC Capacity (kWdc)", "PV Owner",
    "BESS Capacity (kWh)", "BESS Manufacturer", "BESS Owner",
    "BESS Ownership Structure", "Award Number" }

CardCells == { NaN, Str(<<" ">>), Str(<<"A", "&", "B">>), Num(5) }

CardRow(system_id, cells) ==
  [BaseRow EXCEPT !.system_id = system_id,
                  !.columns = [column \in DetailColumns |->
                                 IF column \in CardColumns THEN cells[column] ELSE NaN]]

CardFrame(system_id, cells) == load_data(<<CardRow(system_id, cells)>>)

\* ------------------------------------------------------------------------
\* The render pass
\* ------------------------------------------------------------------------
DATA_PATH == "data/installation_data_csv.csv"

\* a frame as a value that can be told from "nothing": a file, a cache entry
Frame(rows) == [kind |-> "frame", rows |-> rows]

\* a store in which no call is ever found
cache_lookup_miss(store, path) == None

\* st.cache_data: the entry stored for the argument of the call
cache_lookup(store, path) == store[path]

\* load_data(path) behind st.cache_data: a stored entry is returned without
\* running the function; otherwise the file is read, which raises when there
\* is no file, and the frame is stored under the path
cached_load_data(store, path, content) ==
  IF cache_lookup(store, path).kind = "frame"
    THEN [ raised |-> FALSE, data |-> cache_lookup(store, path).rows,
           store |-> store, read |-> FALSE ]
  ELSE IF content.kind # "frame"
    THEN [ raised |-> TRUE, data |-> <<>>, store |-> store, read |-> FALSE ]
  ELSE [ raised |-> FALSE, data |-> load_data(content.rows),
         store |-> [store EXCEPT ![path] = Frame(load_data(content.rows))],
         read |-> TRUE ]

\* the stripped "community" query parameter, empty when there is none
selected_community_of(selected_values) ==
  IF selected_values.kind = "none" THEN <<>> ELSE strip(py_str(selected_values))

\* what render_community_detail puts on the page, and what it returns
render_community_detail(community, data) ==
  LET named(row) == row.community = Str(community)
      community_df == SelectSeq(data, named)
  IN IF community_df = <<>>
       THEN [ rendered |-> FALSE,
              page |-> << [kind |-> "not_found", community |-> community] >> ]
       ELSE [ rendered |-> TRUE,
              page |-> << [kind |-> "detail", community |-> community,
                           html |-> build_tooltip_html(community, community_df)] >> ]

\* the map page: the map and its legend, or the warning that no community
\* has valid coordinates (logos, title, tip and captions are left out)
map_page(community_records) ==
  IF community_records = <<>>
    THEN << [kind |-> "no_records"] >>
    ELSE << [kind |-> "map", records |-> Len(community_records)],
            [kind |-> "legend"] >>

\* main after render_community_detail has returned: the pass ends there when
\* the detail page was rendered, and goes on to the map page otherwise
page_after_detail(detail, community_records) ==
  IF detail.rendered THEN detail.page
  ELSE detail.page \o map_page(community_records)

\* what main puts on the page once the records exist
main_page(data, community_records, selected_values) ==
  IF selected_community_of(selected_values) # <<>>
    THEN page_after_detail(
           render_community_detail(selected_community_of(selected_values), data),
           community_records)
    ELSE map_page(community_records)

\* ------------------------------------------------------------------------
\* The click handler of the map page
\* ------------------------------------------------------------------------
\* the text of the title before any community is shown
COMMUNITY_DETAILS ==
  <<"C", "o", "m", "m", "u", "n", "i", "t", "y", " ", "d", "e", "t", "a", "i", "l", "s">>

\* the page address the relative detail_url is resolved against: the
\* referrer or the location of the page, an absolute http address
BASE_URL == <<"h", "t", "t", "p", ":", "/", "/", "h", "/">>

\* new URL(detail_url, baseUrl).toString() for a "?community=..." reference:
\* the query of the base address is replaced by that of the reference
resolve_url(detail_url) == BASE_URL \o detail_url

\* the body of the panel before any community is shown
NoBody == [kind |-> "empty"]

\* the elements createElement has made, with the children appendChild has
\* given each and the style.display of each ("" when none was assigned)
new_panel_elements ==
  [ children |->
      [ panel |-> <<"header", "actions", "status", "body">>,
        header |-> <<"title", "closeButton">>,
        title |-> <<>>,
        closeButton |-> <<>>,
        actions |-> <<"openLink">>,
        openLink |-> <<>>,
        copyButton |-> <<>>,
        linkWrapper |-> <<"linkInput">>,
        linkInput |-> <<>>,
        status |-> <<>>,
        body |-> <<>> ],
    display |->
      [ panel |-> "none", header |-> "flex", title |-> "", closeButton |-> "",
        actions |-> "flex", openLink |-> "none", copyButton |-> "none",
        linkWrapper |-> "none", linkInput |-> "", status |-> "", body |-> "" ],
    title |-> COMMUNITY_DETAILS,
    href |-> <<"#">>,
    linkInput |-> <<>>,
    status |-> <<>>,
    body |-> NoBody ]

\* ensurePanel: the elements are made and the panel is appended to the
\* container on the first call only
ensurePanel(state) ==
  IF state.panelElements.kind # "none" THEN state
  ELSE [ panelElements |-> [kind |-> "elements", of |-> new_panel_elements],
         container |-> Append(state.container, "panel") ]

\* a hide that leaves the panel as it is
hidePanel_keep(state) == state

hidePanel(state) ==
  IF state.panelElements.kind = "none" THEN state
  ELSE [state EXCEPT !.panelElements.of.display.panel = "none"]

\* the listener of the close button
closeButton_click(state) ==
  [state EXCEPT !.panelElements.of.display.panel = "none"]

\* showPanel(info) for a click that hit an object of the layer
showPanel(state, object) ==
  LET ensured == ensurePanel(state)
      detailHref == IF object.detail_url # <<>> THEN resolve_url(object.detail_url)
                    ELSE <<>>
      linked == detailHref # <<>>
  IN [ensured EXCEPT
        !.panelElements.of.title =
           IF object.community # <<>> THEN object.community ELSE COMMUNITY_DETAILS,
        !.panelElements.of.href = IF linked THEN detailHref ELSE <<"#">>,
        !.panelElements.of.display.openLink = IF linked THEN "inline-flex" ELSE "none",
        !.panelElements.of.display.copyButton = IF linked THEN "inline-flex" ELSE "none",
        !.panelElements.of.display.linkWrapper = IF linked THEN "block" ELSE "none",
        !.panelElements.of.linkInput = IF linked THEN detailHref ELSE <<>>,
        !.panelElements.of.status = <<>>,
        !.panelElements.of.body = [kind |-> "html", html |-> object.tooltip_html],
        !.panelElements.of.display.panel = "flex"]

\* the onClick the handler installs: info is the object hit, None for a
\* click on the map beside every object
onClick(state, info) ==
  IF info.kind = "object" THEN showPanel(state, info.object) ELSE hidePanel(state)

\* the dataset file: absent, or one of a few files that differ in the
\* communities they hold and in their coordinates
FileRows ==
  { << RecordRow(1, Str(<<"A">>), <<Num(2), Num(6)>>, Num(1)) >>,
    << RecordRow(1, Str(<<"A">>), <<Num(2), Num(6)>>, Num(1)),
       RecordRow(2, Str(<<"B">>), <<Num(4), Num(10)>>, Num(1)) >>,
    << RecordRow(1, Str(<<"A">>), <<NaN, Num(6)>>, Num(1)) >>,
    << RecordRow(1, Str(<<"A">>), <<Num(2), Num(6)>>, Num(1)),
       RecordRow(2, Str(<<"B">>), <<Str(<<"x">>), Num(6)>>, NaN) >> }

FileContents == {None} \cup { Frame(rows) : rows \in FileRows }

\* st.query_params.get("community")
QueryValues ==
  { None, Str(<<>>), Str(<<" ">>), Str(<<"A">>), Str(<<" ", "B", " ">>), Str(<<"Z">>) }

\* what a click reports: an object of the layer, or nothing
ClickInfos(records) ==
  {None} \cup { [kind |-> "object", object |-> records[k]] : k \in 1..Len(records) }

NoValue == None
NoResult == "none"

\* no render pass has run: nothing cached, nothing read, nothing on the page
NoSession ==
  /\ previous = NoResult
  /\ file = NoValue
  /\ cache = NoValue
  /\ reads = 0
  /\ query = NoValue
  /\ page = <<>>

\* the map page has not been opened: no panel, no event
NoBrowser ==
  /\ panel = NoValue
  /\ events = <<>>

\* ------------------------------------------------------------------------
\* classify_status applied to a status value
\* ------------------------------------------------------------------------
InitClassify ==
  /\ pc = "start"
  /\ value \in StatusValues
  /\ status_list = <<>>
  /\ df = <<>>
  /\ result = NoResult
  /\ NoSession
  /\ NoBrowser

ClassifyStatus ==
  /\ pc = "start"
  /\ result' = classify_status(value)
  /\ pc' = "classified"
  /\ UNCHANGED <<value, status_list, df, session_vars, browser_vars>>

NextClassify == ClassifyStatus

SpecClassify == InitClassify /\ [][NextClassify]_vars

\* ------------------------------------------------------------------------
\* classify_status applied to the texts of the inoperative keywords
\* ------------------------------------------------------------------------
InitInoperative ==
  /\ pc = "start"
  /\ value \in InoperativeValues
  /\ status_list = <<>>
  /\ df = <<>>
  /\ result = NoResult
  /\ NoSession
  /\ NoBrowser

SpecInoperative == InitInoperative /\ [][NextClassify]_vars

\* ------------------------------------------------------------------------
\* aggregate_status applied to the status classes of a group
\* ------------------------------------------------------------------------
InitAggregate ==
  /\ pc = "start"
  /\ value = NoValue
  /\ status_list \in StatusLists
  /\ df = <<>>
  /\ result = NoResult
  /\ NoSession
  /\ NoBrowser

AggregateStatus ==
  /\ pc = "start"
  /\ result' = aggregate_status(status_list)
  /\ pc' = "aggregated"
  /\ UNCHANGED <<value, status_list, df, session_vars, browser_vars>>

NextAggregate == AggregateStatus

SpecAggregate == InitAggregate /\ [][NextAggregate]_vars

\* ------------------------------------------------------------------------
\* determine_color_category and the color lookup applied to a community group
\* ------------------------------------------------------------------------
InitColor ==
  /\ pc = "start"
  /\ value = NoValue
  /\ status_list = <<>>
  /\ \E n \in 1..MaxGroup : \E f \in [1..n -> ColorCells] : df = ColorGroup(n, f)
  /\ result = NoResult
  /\ NoSession
  /\ NoBrowser

DetermineColor ==
  /\ pc = "start"
  /\ result' = [ category |-> determine_color_category(df),
                 color |-> color_of(determine_color_category(df)) ]
  /\ pc' = "colored"
  /\ UNCHANGED <<value, status_list, df, session_vars, browser_vars>>

NextColor == DetermineColor

SpecColor == InitColor /\ [][NextColor]_vars

\* ------------------------------------------------------------------------
\* parse_install_year applied to an install date value
\* ------------------------------------------------------------------------
InitYear ==
  /\ pc = "start"
  /\ value \in YearValues
  /\ status_list = <<>>
  /\ df = <<>>
  /\ result = NoResult
  /\ NoSession
  /\ NoBrowser

ParseInstallYear ==
  /\ pc = "start"
  /\ result' = parse_install_year(value)
  /\ pc' = "parsed"
  /\ UNCHANGED <<value, status_list, df, session_vars, browser_vars>>

NextYear == ParseInstallYear

SpecYear == InitYear /\ [][NextYear]_vars

\* ------------------------------------------------------------------------
\* create_community_records applied to the loaded frame
\* ------------------------------------------------------------------------
InitRecords ==
  /\ pc = "start"
  /\ value = NoValue
  /\ status_list = <<>>
  /\ \E n \in 1..MaxRows : \E f \in [1..n -> RecordCells] : df = RecordFrame(n, f)
  /\ result = NoResult
  /\ NoSession
  /\ NoBrowser

CreateCommunityRecords ==
  /\ pc = "start"
  /\ result' = create_community_records(df)
  /\ pc' = "records"
  /\ UNCHANGED <<value, status_list, df, session_vars, browser_vars>>

NextRecords == CreateCommunityRecords

SpecRecords == InitRecords /\ [][NextRecords]_vars

\* ------------------------------------------------------------------------
\* build_project_section applied to the rows of one project
\* ------------------------------------------------------------------------
InitProject ==
  /\ pc = "start"
  /\ value = NoValue
  /\ status_list = <<>>
  /\ \E n \in 1..MaxProjectRows : \E f \in [1..n -> ProjectCells] :
       df = ProjectFrame(n, f)
  /\ result = NoResult
  /\ NoSession
  /\ NoBrowser

BuildProjectSection ==
  /\ pc = "start"
  /\ result' = build_project_section(df)
  /\ pc' = "section"
  /\ UNCHANGED <<value, status_list, df, session_vars, browser_vars>>

NextProject == BuildProjectSection

SpecProject == InitProject /\ [][NextProject]_vars

\* ------------------------------------------------------------------------
\* build_tooltip_html applied to the rows of one community
\* ------------------------------------------------------------------------
InitTooltip ==
  /\ pc = "start"
  /\ value = NoValue
  /\ status_list = <<>>
  /\ \E n \in 1..MaxTooltipRows : \E f \in [1..n -> TooltipCells] :
       df = TooltipFrame(n, f)
  /\ result = NoResult
  /\ NoSession
  /\ NoBrowser

BuildTooltipHtml ==
  /\ pc = "start"
  /\ result' = build_tooltip_html(df[1].community.s, df)
  /\ pc' = "tooltip"
  /\ UNCHANGED <<value, status_list, df, session_vars, browser_vars>>

NextTooltip == BuildTooltipHtml

SpecTooltip == InitTooltip /\ [][NextTooltip]_vars

\* ------------------------------------------------------------------------
\* build_project_section applied to systems that differ in date and status
\* ------------------------------------------------------------------------
InitFirstYear ==
  /\ pc = "start"
  /\ value = NoValue
  /\ status_list = <<>>
  /\ \E n \in 1..MaxYearRows : \E f \in [1..n -> FirstYearCells] :
       df = FirstYearFrame(n, f)
  /\ result = NoResult
  /\ NoSession
  /\ NoBrowser

SpecFirstYear == InitFirstYear /\ [][NextProject]_vars

\* ------------------------------------------------------------------------
\* load_data applied to a file of one row: the derived System Type
\* ------------------------------------------------------------------------
InitSystemType ==
  /\ pc = "start"
  /\ value \in IdValues
  /\ status_list = <<>>
  /\ df = <<>>
  /\ result = NoResult
  /\ NoSession
  /\ NoBrowser

LoadData ==
  /\ pc = "start"
  /\ df' = load_data(<<IdRow(value)>>)
  /\ result' = df'[1].system_type
  /\ pc' = "loaded"
  /\ UNCHANGED <<value, status_list, session_vars, browser_vars>>

NextSystemType == LoadData

SpecSystemType == InitSystemType /\ [][NextSystemType]_vars

\* ------------------------------------------------------------------------
\* build_system_section applied to one system row
\* ------------------------------------------------------------------------
InitCard ==
  /\ pc = "start"
  /\ value = NoValue
  /\ status_list = <<>>
  /\ \E system_id \in CardIds : \E cells \in [CardColumns -> CardCells] :
       df = CardFrame(system_id, cells)
  /\ result = NoResult
  /\ NoSession
  /\ NoBrowser

BuildSystemSection ==
  /\ pc = "start"
  /\ result' = build_system_section(df[1], classify_status(df[1].status),
                                     get_system_install_year(df[1]))
  /\ pc' = "card"
  /\ UNCHANGED <<value, status_list, df, session_vars, browser_vars>>

NextCard == BuildSystemSection

SpecCard == InitCard /\ [][NextCard]_vars

\* ------------------------------------------------------------------------
\* create_community_records run twice on the loaded frame
\* ------------------------------------------------------------------------
InitRerun ==
  /\ pc = "start"
  /\ value = NoValue
  /\ status_list = <<>>
  /\ \E n \in 1..MaxRerunRows : \E f \in [1..n -> RecordCells] : df = RecordFrame(n, f)
  /\ result = NoResult
  /\ NoSession
  /\ NoBrowser

\* the first run; the frame it was given and its outcome are kept
RunOnce ==
  /\ pc = "start"
  /\ previous' = [ data |-> df, outcome |-> create_community_records(df) ]
  /\ df' = data_after_records(df)
  /\ pc' = "once"
  /\ UNCHANGED <<value, status_list, result, file, cache, reads, query, page,
                 browser_vars>>

\* the second run, on the frame the first run left
RunAgain ==
  /\ pc = "once"
  /\ result' = create_community_records(df)
  /\ df' = data_after_records(df)
  /\ pc' = "twice"
  /\ UNCHANGED <<value, status_list, previous, file, cache, reads, query, page,
                 browser_vars>>

NextRerun == RunOnce \/ RunAgain

SpecRerun == InitRerun /\ [][NextRerun]_vars

\* ------------------------------------------------------------------------
\* The Streamlit process: render passes of main, edits of the dataset file
\* between passes, and restarts of the process
\* ------------------------------------------------------------------------
InitMain ==
  /\ pc = "start"
  /\ value = NoValue
  /\ status_list = <<>>
  /\ df = <<>>
  /\ result = NoResult
  /\ previous = <<>>
  /\ file \in FileContents
  /\ cache = [path \in {DATA_PATH} |-> NoValue]
  /\ reads = 0
  /\ query = NoValue
  /\ page = <<>>
  /\ NoBrowser

\* one pass of main: the frame from load_data, the records, then the page;
\* a raise of load_data or of create_community_records ends the pass with
\* the exception on the page. "previous" keeps the frame of the first read
\* of the process, "reads" counts the reads of the file by the process
RenderPass ==
  \E selected_values \in QueryValues :
    LET load == cached_load_data(cache, DATA_PATH, file)
    IN /\ load.read => reads < MaxReads
       /\ query' = selected_values
       /\ cache' = load.store
       /\ reads' = IF load.read THEN reads + 1 ELSE reads
       /\ previous' = IF load.read /\ reads = 0 THEN load.data ELSE previous
       /\ df' = load.data
       /\ result' = IF load.raised THEN [raised |-> TRUE, records |-> <<>>]
                    ELSE create_community_records(df')
       /\ pc' = IF load.raised THEN "failed"
                ELSE IF result'.raised THEN "aborted"
                ELSE "rendered"
       /\ page' = IF pc' = "rendered"
                    THEN main_page(df', result'.records, query')
                    ELSE << [kind |-> "exception"] >>
       /\ UNCHANGED <<value, status_list, file, browser_vars>>

\* the dataset file is replaced or removed while the process is idle
ChangeFile ==
  /\ pc # "start"
  /\ file' \in FileContents \ {file}
  /\ pc' = "idle"
  /\ UNCHANGED <<value, status_list, df, result, previous, cache, reads,
                 query, page, browser_vars>>

\* the process is stopped and started again: the store is empty again
Restart ==
  /\ pc # "start"
  /\ pc' = "start"
  /\ df' = <<>>
  /\ result' = NoResult
  /\ previous' = <<>>
  /\ cache' = [path \in {DATA_PATH} |-> NoValue]
  /\ reads' = 0
  /\ query' = NoValue
  /\ page' = <<>>
  /\ UNCHANGED <<value, status_list, file, browser_vars>>

NextMain == RenderPass \/ ChangeFile \/ Restart

SpecMain == InitMain /\ [][NextMain]_vars

\* ------------------------------------------------------------------------
\* The detail link of a record opened in the browser
\* ------------------------------------------------------------------------
\* community names as the file gives them: plain, with a space inside, with
\* a space in front or behind, a space alone, and with characters that
\* quote_plus escapes
LinkNames ==
  { <<"A">>, <<"A", " ", "B">>, <<" ", "A">>, <<"A", " ">>, <<" ">>,
    <<"A", "&", "B">>, <<"A", "+", "B">>, <<"A", "%", "2", "B">>,
    <<"a", "/", "b">> }

LinkCoords == { <<Num(2), Num(6)>>, <<NaN, Num(6)>> }

LinkCells == LinkNames \X LinkCoords

LinkFrame(n, f) ==
  load_data([i \in 1..n |-> RecordRow(i, Str(f[i][1]), f[i][2], Num(1))])

\* the name of the query parameter of the detail link
COMMUNITY_PARAMETER == <<"c", "o", "m", "m", "u", "n", "i", "t", "y">>

InitLink ==
  /\ pc = "start"
  /\ value = NoValue
  /\ status_list = <<>>
  /\ \E n \in 1..MaxLinkRows : \E f \in [1..n -> LinkCells] : df = LinkFrame(n, f)
  /\ result = NoResult
  /\ NoSession
  /\ NoBrowser

\* the detail_url of a record of the map is opened: main runs again on the
\* same dataset with the query of the link; "value" keeps the record
FollowLink ==
  /\ pc = "records"
  /\ ~result.raised
  /\ \E k \in 1..Len(result.records) :
       /\ value' = result.records[k]
       /\ query' = query_params_get(result.records[k].detail_url,
                                    COMMUNITY_PARAMETER)
  /\ result' = create_community_records(df)
  /\ page' = IF result'.raised THEN << [kind |-> "exception"] >>
             ELSE main_page(df, result'.records, query')
  /\ pc' = "followed"
  /\ UNCHANGED <<status_list, df, previous, file, cache, reads, browser_vars>>

NextLink == CreateCommunityRecords \/ FollowLink

SpecLink == InitLink /\ [][NextLink]_vars

\* ------------------------------------------------------------------------
\* The map page: clicks on the map and on the close button of the panel
\* ------------------------------------------------------------------------
\* the handler has been attached to a map drawn from the records of a
\* dataset; the deck may or may not have had an onClick of its own
InitPanel ==
  /\ pc = "attached"
  /\ value = NoValue
  /\ status_list = <<>>
  /\ \E rows \in FileRows :
       /\ df = load_data(rows)
       /\ result = create_community_records(df)
       /\ ~result.raised
       /\ result.records # <<>>
  /\ NoSession
  /\ panel = [panelElements |-> None, container |-> <<>>]
  /\ \E existingOnClick \in BOOLEAN :
       events = [ last |-> [kind |-> "none"], clicks |-> 0,
                  existingOnClick |-> existingOnClick, existing_calls |-> 0 ]

\* a click on the map: the installed onClick, then the earlier handler
MapClick ==
  \E info \in ClickInfos(result.records) :
    /\ events.clicks < MaxClicks
    /\ panel' = onClick(panel, info)
    /\ events' = [events EXCEPT
                    !.last = [kind |-> "click", info |-> info],
                    !.clicks = @ + 1,
                    !.existing_calls = IF events.existingOnClick THEN @ + 1 ELSE @]
    /\ pc' = "clicked"
    /\ UNCHANGED <<value, status_list, df, result, session_vars>>

\* a click on the close button, which exists once the panel has been made
CloseClick ==
  /\ panel.panelElements.kind = "elements"
  /\ panel' = closeButton_click(panel)
  /\ events' = [events EXCEPT !.last = [kind |-> "close"]]
  /\ pc' = "closed"
  /\ UNCHANGED <<value, status_list, df, result, session_vars>>

NextPanel == MapClick \/ CloseClick

SpecPanel == InitPanel /\ [][NextPanel]_vars

\* ------------------------------------------------------------------------
\* Properties
\* ------------------------------------------------------------------------
MatchesAny(keywords) == any_keyword(keywords, normalize_status(value))

\* C1: classify_status returns one of the four classes, and the class is that
\* of the first keyword set, in the order operating, inoperative, planned,
\* with a keyword occurring in the normalized text; unknown when none matches.
C1_ClassifyFirstMatch ==
  pc = "classified" =>
    /\ result \in StatusClasses
    /\ (result = "operating") <=> MatchesAny(OPERATING_KEYWORDS)
    /\ (result = "inoperative") <=>
         (~MatchesAny(OPERATING_KEYWORDS) /\ MatchesAny(INOPERATIVE_KEYWORDS))
    /\ (result = "planned") <=>
         (/\ ~MatchesAny(OPERATING_KEYWORDS)
          /\ ~MatchesAny(INOPERATIVE_KEYWORDS)
          /\ MatchesAny(PLANNED_KEYWORDS))
    /\ (result = "unknown") <=>
         (/\ ~MatchesAny(OPERATING_KEYWORDS)
          /\ ~MatchesAny(INOPERATIVE_KEYWORDS)
          /\ ~MatchesAny(PLANNED_KEYWORDS))

\* a text with keywords of two sets ("inactive": active and inactive) is classified
C1_Witness ==
  /\ pc = "classified"
  /\ MatchesAny(OPERATING_KEYWORDS)
  /\ MatchesAny(INOPERATIVE_KEYWORDS)
  /\ result = "operating"

\* the keyword occurs at position i of the raw text, letter case ignored
OccursIgnoringCase(keyword, text, i) ==
  /\ i + Len(keyword) - 1 <= Len(text)
  /\ \A j \in 1..Len(keyword) : lower_char(text[i + j - 1]) = keyword[j]

HasOperatingKeyword(v) ==
  /\ v.kind = "str"
  /\ \E keyword \in OPERATING_KEYWORDS :
       \E i \in 1..Len(v.s) : OccursIgnoringCase(keyword, v.s, i)

\* C2: a status text containing an operating keyword, in any letter case and
\* with any surrounding text, is classified operating.
C2_OperatingKeywordWins ==
  (pc = "classified" /\ HasOperatingKeyword(value)) => result = "operating"

\* an upper-case keyword inside surrounding text is classified
C2_Witness ==
  /\ pc = "classified"
  /\ HasOperatingKeyword(value)
  /\ value.s # lower(value.s)
  /\ ~\E keyword \in OPERATING_KEYWORDS : lower(value.s) = keyword
  /\ result = "operating"

Present(status) == any_status(status, status_list)

\* C3: aggregate_status returns the highest class present under
\* operating > inoperative > planned > unknown, whatever the order and
\* multiplicity of the members; unknown for an empty or unrecognised group.
C3_AggregateHighestPriority ==
  pc = "aggregated" =>
    /\ (result = "operating") <=> Present("operating")
    /\ (result = "inoperative") <=>
         (Present("inoperative") /\ ~Present("operating"))
    /\ (result = "planned") <=>
         (/\ Present("planned")
          /\ ~Present("operating")
          /\ ~Present("inoperative"))
    /\ (result = "unknown") <=>
         (/\ ~Present("operating")
          /\ ~Present("inoperative")
          /\ ~Present("planned"))

\* a group listing planned before inoperative, with a repeated member
C3_Witness ==
  /\ pc = "aggregated"
  /\ Len(status_list) = 3
  /\ status_list[1] = "planned"
  /\ status_list[2] = "inoperative"
  /\ status_list[3] = "planned"
  /\ result = "inoperative"

\* the member's status text is 'operating' once stripped and lower-cased
OperatingMember(row) ==
  /\ row.status.kind = "str"
  /\ lower(strip(row.status.s)) = <<"o", "p", "e", "r", "a", "t", "i", "n", "g">>

\* the member's diesels-off cell is 'yes' once stripped and lower-cased
DieselsOffMember(row) ==
  /\ row.enables.kind = "str"
  /\ lower(strip(row.enables.s)) = <<"y", "e", "s">>

Members == {df[i] : i \in 1..Len(df)}

\* C4: the pin category of a community is decided in the order
\* (1) a member both operating and diesels-off-enabled, (2) a member
\* diesels-off-enabled, (3) a member operating, else the planned default;
\* one row 'Operating' / 'yes' gives diesels_off_operating, [34,139,34,220].
C4_ColorCategoryOrder ==
  pc = "colored" =>
    /\ result.category =
         IF \E r \in Members : OperatingMember(r) /\ DieselsOffMember(r)
           THEN "diesels_off_operating"
         ELSE IF \E r \in Members : DieselsOffMember(r)
           THEN "diesels_off_planned"
         ELSE IF \E r \in Members : OperatingMember(r)
           THEN "non_diesels_off_operating"
         ELSE "non_diesels_off_planned"
    /\ (/\ Len(df) = 1
        /\ df[1].status = Str(<<"O", "p", "e", "r", "a", "t", "i", "n", "g">>)
        /\ df[1].enables = Str(<<"y", "e", "s">>))
         => result = [ category |-> "diesels_off_operating",
                       color |-> <<34, 139, 34, 220>> ]

\* one member operating but not enabled, another enabled but not operating
C4_Witness ==
  /\ pc = "colored"
  /\ \E r \in Members : OperatingMember(r) /\ ~DieselsOffMember(r)
  /\ \E r \in Members : DieselsOffMember(r) /\ ~OperatingMember(r)
  /\ ~\E r \in Members : OperatingMember(r) /\ DieselsOffMember(r)
  /\ result.category = "diesels_off_planned"
  /\ result.color = <<255, 165, 0, 220>>

DigitChars == {"0", "1", "2", "3", "4", "5", "6", "7", "8", "9"}

\* a 19xx or 20xx pattern starts at position i of the text
YearStartsAt(t, i) ==
  /\ i + 3 <= Len(t)
  /\ \/ (t[i] = "1" /\ t[i + 1] = "9")
     \/ (t[i] = "2" /\ t[i + 1] = "0")
  /\ t[i + 2] \in DigitChars
  /\ t[i + 3] \in DigitChars

FirstYearStart(t) ==
  CHOOSE i \in 1..Len(t) :
    YearStartsAt(t, i) /\ \A j \in 1..(i - 1) : ~YearStartsAt(t, j)

YearRead(t, i) ==
  1000 * DigitValue(t[i]) + 100 * DigitValue(t[i + 1])
    + 10 * DigitValue(t[i + 2]) + DigitValue(t[i + 3])

\* C10: parse_install_year returns a year exactly for a timestamp (its year),
\* a whole number between 1000 and 3000, or a text containing a 19xx/20xx
\* pattern (the first match); for every other value it returns None.
C10_InstallYearCases ==
  pc = "parsed" =>
    IF value.kind = "ts" THEN result = Num(value.year)
    ELSE IF value.kind = "num" /\ 1000 <= value.n /\ value.n <= 3000
      THEN result = Num(value.n)
    ELSE IF value.kind = "str" /\ \E i \in 1..Len(value.s) : YearStartsAt(value.s, i)
      THEN result = Num(YearRead(value.s, FirstYearStart(value.s)))
    ELSE result = None

\* a text with two year patterns yields the first one
C10_Witness ==
  /\ pc = "parsed"
  /\ value.kind = "str"
  /\ \E i, j \in 1..Len(value.s) :
       /\ i < j
       /\ YearStartsAt(value.s, i)
       /\ YearStartsAt(value.s, j)
       /\ YearRead(value.s, i) # YearRead(value.s, j)
       /\ result = Num(YearRead(value.s, i))

\* ---- community records ----
Rows == 1..Len(df)

\* both coordinates of the row are present
HasCoordinates(i) == df[i].longitude.kind # "nan" /\ df[i].latitude.kind # "nan"

CommunityNames == { df[i].community : i \in Rows } \ {NaN}

RowsOfCommunity(c) == { i \in Rows : df[i].community = c }

Located(c) == \E i \in RowsOfCommunity(c) : HasCoordinates(i)

RecordsOf(c) ==
  { k \in 1..Len(result.records) : result.records[k].community = c.s }

\* C5: a community without a row that has both coordinates produces no
\* record, and every community with such a row produces exactly one record.
C5_RecordIffCoordinates ==
  pc = "records" =>
    \A c \in CommunityNames :
      IF Located(c) THEN Cardinality(RecordsOf(c)) = 1 ELSE RecordsOf(c) = {}

CoordinateNumber(cell) == IF cell.kind = "num" THEN cell.n ELSE float_of(cell)

RECURSIVE SumLongitude(_)
SumLongitude(S) ==
  IF S = {} THEN 0
  ELSE LET i == CHOOSE x \in S : TRUE
       IN CoordinateNumber(df[i].longitude) + SumLongitude(S \ {i})

RECURSIVE SumLatitude(_)
SumLatitude(S) ==
  IF S = {} THEN 0
  ELSE LET i == CHOOSE x \in S : TRUE
       IN CoordinateNumber(df[i].latitude) + SumLatitude(S \ {i})

\* the member rows of a record's community that have both coordinates
LocatedMembers(rec) ==
  { i \in Rows : /\ df[i].community.kind = "str"
                 /\ df[i].community.s = rec.community
                 /\ HasCoordinates(i) }

\* the fraction sum / count equals total / n
IsMean(mean, total, n) == mean.count > 0 /\ n > 0 /\ mean.sum * n = total * mean.count

\* C6: the centroid of every community record is the arithmetic mean of the
\* Longitude and of the Latitude over exactly the member rows that have both
\* coordinates; rows with a missing coordinate contribute to neither mean.
C6_CentroidIsMean ==
  pc = "records" =>
    \A k \in 1..Len(result.records) :
      LET rec == result.records[k]
          members == LocatedMembers(rec)
      IN /\ IsMean(rec.longitude, SumLongitude(members), Cardinality(members))
         /\ IsMean(rec.latitude, SumLatitude(members), Cardinality(members))

\* two located members with different latitudes next to a member whose
\* longitude is missing
C6_Witness ==
  /\ pc = "records"
  /\ \E k \in 1..Len(result.records) :
       LET rec == result.records[k] IN
         /\ Cardinality(LocatedMembers(rec)) = 2
         /\ \E i \in Rows : /\ df[i].community = Str(rec.community)
                            /\ ~HasCoordinates(i)
                            /\ df[i].latitude.kind = "num"
         /\ rec.latitude.sum = 16
         /\ rec.latitude.count = 2

\* the places where row i is rendered: record, project section, position
Renderings(i) ==
  { place \in UNION { UNION { { <<k, p, j>> :
        j \in 1..Len(result.records[k].tooltip_html.projects[p].systems) } :
        p \in 1..Len(result.records[k].tooltip_html.projects) } :
        k \in 1..Len(result.records) } :
      result.records[place[1]].tooltip_html.projects[place[2]].systems[place[3]].row = i }

\* the rows rendered in project section p of record k
SectionRows(k, p) ==
  LET systems == result.records[k].tooltip_html.projects[p].systems
  IN { systems[j].row : j \in 1..Len(systems) }

\* C7 as claimed, for a run that returned its records: every input row is
\* rendered in exactly one project section of exactly one community's tooltip.
C7_EveryRowRenderedOnce ==
  (pc = "records" /\ ~result.raised) =>
    \A i \in Rows : Cardinality(Renderings(i)) = 1

\* C7: every input row is rendered in at most one project section of at most
\* one community's tooltip; a row without a Community Name, or of a community
\* without a located row, is rendered nowhere; every row of a community that
\* has a record is rendered exactly once, in that community's tooltip, in the
\* section that holds exactly the community's rows with its project identifier.
C7_RowRenderedAtMostOnce ==
  pc = "records" =>
    /\ \A i \in Rows : Cardinality(Renderings(i)) <= 1
    /\ \A i \in Rows :
         (df[i].community.kind = "nan" \/ ~Located(df[i].community))
           => Renderings(i) = {}
    /\ \A k \in 1..Len(result.records) :
         \A i \in RowsOfCommunity(Str(result.records[k].community)) :
           /\ Cardinality(Renderings(i)) = 1
           /\ \A place \in Renderings(i) :
                /\ place[1] = k
                /\ SectionRows(k, place[2]) =
                     { j \in RowsOfCommunity(df[i].community) :
                         df[j].project_id = df[i].project_id }

\* a record with two project sections, one of them for the rows without a
\* project identifier, while a row without a community is rendered nowhere
C7_Witness ==
  /\ pc = "records"
  /\ \E k \in 1..Len(result.records) :
       /\ Len(result.records[k].tooltip_html.projects) = 2
       /\ \E i \in RowsOfCommunity(Str(result.records[k].community)) :
            df[i].project_id.kind = "nan" /\ Cardinality(Renderings(i)) = 1
  /\ \E i \in Rows : df[i].community.kind = "nan" /\ Renderings(i) = {}

\* ---- order of the systems of a project section ----
\* cell a sorts strictly before cell b: ascending, a missing value last
CellBefore(a, b) ==
  /\ ~isna(a)
  /\ \/ isna(b)
     \/ (a.kind = "num" /\ b.kind = "num" /\ a.n < b.n)
     \/ (a.kind = "str" /\ b.kind = "str" /\ str_cmp(a.s, b.s) < 0)

CellSame(a, b) == (isna(a) /\ isna(b)) \/ a = b

InstallYear(i) == get_system_install_year(df[i])

\* row i sorts strictly before row j on (install year, name, identifier)
SystemBefore(i, j) ==
  \/ CellBefore(InstallYear(i), InstallYear(j))
  \/ /\ CellSame(InstallYear(i), InstallYear(j))
     /\ \/ CellBefore(df[i].system_name, df[j].system_name)
        \/ /\ CellSame(df[i].system_name, df[j].system_name)
           /\ CellBefore(df[i].system_id, df[j].system_id)

SystemSame(i, j) ==
  /\ CellSame(InstallYear(i), InstallYear(j))
  /\ CellSame(df[i].system_name, df[j].system_name)
  /\ CellSame(df[i].system_id, df[j].system_id)

\* the rows of the section in rendered order
RenderedRows == [j \in 1..Len(result.systems) |-> result.systems[j].row]

\* C8: the systems of a project section are in ascending order of (install
\* year, system name, system identifier), missing values last at each level,
\* rows equal on the whole key keep their input order; install years
\* [2019, None, 2017] are rendered in the order [2017, 2019, None].
C8_SystemsSorted ==
  pc = "section" =>
    /\ Len(RenderedRows) = Len(df)
    /\ { RenderedRows[j] : j \in 1..Len(RenderedRows) } = Rows
    /\ \A j, k \in 1..Len(RenderedRows) :
         j < k =>
           /\ ~SystemBefore(RenderedRows[k], RenderedRows[j])
           /\ SystemSame(RenderedRows[j], RenderedRows[k])
                => RenderedRows[j] < RenderedRows[k]
    /\ (/\ Len(df) = 3
        /\ InstallYear(1) = Num(2019)
        /\ InstallYear(2) = None
        /\ InstallYear(3) = Num(2017))
         => /\ RenderedRows = <<3, 1, 2>>
            /\ result.systems[1].install_year_text = <<"2", "0", "1", "7">>
            /\ result.systems[2].install_year_text = <<"2", "0", "1", "9">>
            /\ result.systems[3].install_year_text = UNKNOWN_LABEL

\* install years 2019, None, 2017 in input order, rendered 2017, 2019, None
C8_Witness ==
  /\ pc = "section"
  /\ Len(df) = 3
  /\ InstallYear(1) = Num(2019)
  /\ InstallYear(2) = None
  /\ InstallYear(3) = Num(2017)
  /\ RenderedRows = <<3, 1, 2>>

\* ---- order of the project sections of a tooltip ----
\* the project identifier of section p
SectionProject(p) == df[result.projects[p].systems[1].row].project_id

\* the first row of the project in the frame: it carries the project's name
FirstRowOf(project_id) ==
  df[CHOOSE i \in Rows :
       /\ df[i].project_id = project_id
       /\ \A j \in Rows : df[j].project_id = project_id => i <= j]

NameAbsent(project_id) ==
  LET name == FirstRowOf(project_id).project_name
  IN isna(name) \/ strip(name.s) = <<>>

\* the name, or the identifier of a project without name, letter case ignored
NameOrIdentifier(project_id) ==
  IF ~NameAbsent(project_id) THEN lower(strip(FirstRowOf(project_id).project_name.s))
  ELSE IF isna(project_id) THEN <<>>
  ELSE lower(strip(project_id.s))

\* the order of the groups before sorting: ascending identifier, missing last
GroupedBefore(a, b) == CellBefore(a, b)

Sections == 1..Len(result.projects)

\* the project has a name, or an identifier to stand in for it
Identified(project_id) == ~NameAbsent(project_id) \/ ~isna(project_id)

\* C9 as claimed, for the projects that have a name or an identifier: the
\* sections are in the order of the project name compared case-insensitively,
\* the identifier standing in for an absent name; projects that compare equal
\* keep their grouping order.
C9_SectionsByNameOrIdentifier ==
  pc = "tooltip" =>
    \A p, q \in Sections :
      (p < q /\ Identified(SectionProject(p)) /\ Identified(SectionProject(q))) =>
        /\ str_cmp(NameOrIdentifier(SectionProject(p)),
                   NameOrIdentifier(SectionProject(q))) <= 0
        /\ NameOrIdentifier(SectionProject(p)) = NameOrIdentifier(SectionProject(q))
             => GroupedBefore(SectionProject(p), SectionProject(q))

\* C9: the sections of the named projects come first, ordered by project name
\* compared case-insensitively; the projects without a name come after all
\* named ones, ordered by project identifier compared case-insensitively;
\* projects that compare equal keep their grouping order.
C9_NamedSectionsFirst ==
  pc = "tooltip" =>
    /\ { SectionProject(p) : p \in Sections } = { df[i].project_id : i \in Rows }
    /\ \A p, q \in Sections :
         p < q =>
           /\ NameAbsent(SectionProject(p)) => NameAbsent(SectionProject(q))
           /\ (NameAbsent(SectionProject(p)) <=> NameAbsent(SectionProject(q)))
                => /\ str_cmp(NameOrIdentifier(SectionProject(p)),
                              NameOrIdentifier(SectionProject(q))) <= 0
                   /\ NameOrIdentifier(SectionProject(p))
                        = NameOrIdentifier(SectionProject(q))
                        => GroupedBefore(SectionProject(p), SectionProject(q))

\* a project without a name whose identifier sorts before the name of a
\* named project is rendered after it
C9_Witness ==
  /\ pc = "tooltip"
  /\ \E p, q \in Sections :
       /\ p < q
       /\ ~NameAbsent(SectionProject(p))
       /\ NameAbsent(SectionProject(q))
       /\ ~isna(SectionProject(q))
       /\ str_cmp(NameOrIdentifier(SectionProject(q)),
                  NameOrIdentifier(SectionProject(p))) < 0


\* the defined install years of the systems of the project
SystemYears ==
  { get_system_install_year(df[i]).n :
      i \in { j \in 1..Len(df) : ~isna(get_system_install_year(df[j])) } }

\* C11: the first install year shown in a project section is the minimum of
\* the defined install years of its systems; when no system has a defined
\* year the section shows 'TBD' if the aggregate status of the project is
\* planned and 'Unknown' otherwise.
C11_FirstInstallYear ==
  pc = "section" =>
    IF SystemYears # {}
      THEN \E y \in SystemYears :
             /\ \A other \in SystemYears : y <= other
             /\ result.year_text = digits_of(y)
      ELSE result.year_text =
             (IF result.status = "planned" THEN TBD_LABEL ELSE UNKNOWN_LABEL)

\* a project whose systems have different defined years
C11_Witness ==
  /\ pc = "section"
  /\ Cardinality(SystemYears) >= 2
  /\ \E i \in 1..Len(df) : isna(get_system_install_year(df[i]))


\* the part of a text behind its last "-", the whole text when it has none
TrailingSuffix(s) ==
  LET dashes == { i \in 1..Len(s) : s[i] = "-" }
  IN IF dashes = {} THEN s
     ELSE SubSeq(s, (CHOOSE i \in dashes : \A j \in dashes : j <= i) + 1, Len(s))

\* C12 as stated: the System Type load_data derives is 'Solar PV' when the
\* trailing suffix of the identifier is P, 'Battery Energy Storage' when it
\* is B, and 'Unknown' for every other identifier, a missing or non-text
\* one included.
C12_SuffixLetter ==
  pc = "loaded" =>
    result = IF value.kind = "str" /\ TrailingSuffix(value.s) = <<"P">>
               THEN SOLAR_PV
             ELSE IF value.kind = "str" /\ TrailingSuffix(value.s) = <<"B">>
               THEN BATTERY_ENERGY_STORAGE
             ELSE UNKNOWN_LABEL

\* C12 amended: the suffix is taken from the identifier without its
\* surrounding whitespace and compared without regard to letter case:
\* P or p gives 'Solar PV', B or b gives 'Battery Energy Storage', every
\* other identifier, a missing or non-text one included, gives 'Unknown'.
C12_SuffixLetterAnyCase ==
  pc = "loaded" =>
    result = IF value.kind = "str"
                  /\ TrailingSuffix(strip(value.s)) \in {<<"P">>, <<"p">>}
               THEN SOLAR_PV
             ELSE IF value.kind = "str"
                  /\ TrailingSuffix(strip(value.s)) \in {<<"B">>, <<"b">>}
               THEN BATTERY_ENERGY_STORAGE
             ELSE UNKNOWN_LABEL

\* the identifier '1-p ' is given the type 'Solar PV'
C12_Witness ==
  /\ pc = "loaded"
  /\ value = Str(<<"1", "-", "p", " ">>)
  /\ result = SOLAR_PV


\* C13: a missing or malformed field value is never fatal: whatever values
\* the rows of a dataset with the expected columns hold,
\* create_community_records completes without raising.
C13_NeverFatal ==
  pc = "records" => ~result.raised


\* a value that is absent: None, a missing cell, or a blank text
Absent(v) ==
  \/ v.kind \in {"none", "nan"}
  \/ v.kind = "str" /\ strip(v.s) = <<>>

\* the fields the card of the system shows as cells of its info groups
CellFields ==
  IF df[1].system_type = BATTERY_ENERGY_STORAGE
    THEN BESS_CAPACITY_FIELDS \o BESS_EQUIPMENT_FIELDS \o BESS_OWNERSHIP_FIELDS
  ELSE IF df[1].system_type = SOLAR_PV THEN PV_CAPACITY_FIELDS
  ELSE <<>>

\* the fields the card of the system shows as items of its parameter list
ListFields ==
  IF df[1].system_type = BATTERY_ENERGY_STORAGE
    THEN BASE_FIELDS \o BESS_OTHER_FIELDS
  ELSE IF df[1].system_type = SOLAR_PV THEN BASE_FIELDS \o PV_ADDITIONAL_FIELDS
  ELSE BASE_FIELDS

\* the message of the parameter list of the card: the battery card has the
\* empty text as its message
ListEmptyMessage ==
  IF df[1].system_type = BATTERY_ENERGY_STORAGE THEN <<>> ELSE NO_PARAMETERS_MESSAGE

\* the cells of the info groups of the card, in page order
RECURSIVE CardCellsOf(_)
CardCellsOf(groups) ==
  IF groups = <<>> THEN <<>> ELSE Head(groups).cells \o CardCellsOf(Tail(groups))

\* the elements of the parameter lists of the card, in page order
RECURSIVE CardListElements(_)
CardListElements(lists) ==
  IF lists = <<>> THEN <<>> ELSE Head(lists) \o CardListElements(Tail(lists))

PresentListFields ==
  LET present(field) == ~Absent(row_get(df[1], field[2]))
  IN SelectSeq(ListFields, present)

\* C14: in a system card every cell of the capacity, equipment and ownership
\* groups shows the value of its field, and the text 'Unknown' when the
\* value is absent; the parameter list holds one item for each of its fields
\* whose value is present, in field order, and none for an absent one; a
\* list with no present field shows its empty message and nothing else.
C14_UnknownOrOmitted ==
  pc = "card" =>
    LET cells == CardCellsOf(result.detail_content.groups)
        elements == CardListElements(result.detail_content.lists)
    IN /\ Len(cells) = Len(CellFields)
       /\ \A k \in 1..Len(cells) :
            /\ cells[k].label = CellFields[k][1]
            /\ cells[k].value =
                 (IF Absent(row_get(df[1], CellFields[k][2])) THEN UNKNOWN_LABEL
                  ELSE html_escape(format_value(row_get(df[1], CellFields[k][2])).s))
       /\ IF PresentListFields = <<>> THEN elements = ListEmptyMessage
          ELSE /\ Len(elements) = Len(PresentListFields)
               /\ \A k \in 1..Len(elements) :
                    /\ elements[k].kind = "item"
                    /\ elements[k].label = PresentListFields[k][1]
                    /\ elements[k].value =
                         html_escape(format_value(row_get(df[1], PresentListFields[k][2])).s)

\* a battery card with an absent equipment cell and a parameter list that
\* holds the award number and omits the absent ownership structure
C14_Witness ==
  /\ pc = "card"
  /\ df[1].system_type = BATTERY_ENERGY_STORAGE
  /\ Absent(row_get(df[1], "BESS Manufacturer"))
  /\ ~Absent(row_get(df[1], "BESS Owner"))
  /\ ~Absent(row_get(df[1], "Award Number"))
  /\ Absent(row_get(df[1], "BESS Ownership Structure"))
  /\ Len(result.detail_content.lists) = 1
  /\ Len(result.detail_content.lists[1]) = 1


C16_MemoizedLoad ==
  /\ reads <= 1
  /\ (reads = 1 /\ pc \in {"rendered", "aborted"}) => df = previous

\* a pass that got the frame read earlier although the file has changed
C16_Witness ==
  /\ pc = "rendered"
  /\ reads = 1
  /\ file.kind = "frame"
  /\ load_data(file.rows) # df
  /\ df = previous


\* the kinds of the elements the pass has put on the page, in page order
PageKinds == [i \in 1..Len(page) |-> page[i].kind]

\* the "community" query parameter of the pass without surrounding whitespace
SelectedCommunity == IF query.kind = "str" THEN strip(query.s) ELSE <<>>

\* the parameter equals the Community Name of at least one row
NamesCommunity == \E i \in Rows : df[i].community = Str(SelectedCommunity)

\* C19: every render pass of main that has loaded the dataset produces
\* exactly one of three outcomes: the detail page alone when the stripped
\* 'community' query parameter equals the Community Name of a row; otherwise
\* the 'no community records' warning without a map when no community has
\* valid coordinates, or the map with its legend; a parameter that names no
\* community puts the 'not found' warning before the second or third outcome.
C19_OneOutcome ==
  pc \in {"rendered", "aborted"} =>
    IF NamesCommunity THEN PageKinds = <<"detail">>
    ELSE PageKinds =
           (IF SelectedCommunity # <<>> THEN <<"not_found">> ELSE <<>>)
             \o (IF \E c \in CommunityNames : Located(c)
                   THEN <<"map", "legend">>
                   ELSE <<"no_records">>)


\* the panel has been made, is in the container and is displayed
PanelVisible ==
  /\ panel.panelElements.kind = "elements"
  /\ panel.container # <<>>
  /\ panel.panelElements.of.display.panel # "none"

\* the most recent event was a click that hit a community object
LastHitObject == events.last.kind = "click" /\ events.last.info.kind = "object"

\* C17: after any sequence of map clicks and close-button clicks the pinned
\* panel is visible exactly when the most recent event was a click that hit
\* a community object; while it is visible its title and body are the
\* community name and the tooltip markup of that object; the container
\* holds at most one panel; and a handler the deck had before has been
\* called once for every click.
C17_PanelFollowsClicks ==
  /\ PanelVisible <=> LastHitObject
  /\ PanelVisible =>
       /\ panel.panelElements.of.title = events.last.info.object.community
       /\ panel.panelElements.of.body =
            [kind |-> "html", html |-> events.last.info.object.tooltip_html]
  /\ Len(panel.container) <= 1
  /\ events.existingOnClick => events.existing_calls = events.clicks

\* the panel shows a community again after it had been hidden by a click
\* beside the objects or closed, with an earlier handler called each time
C17_Witness ==
  /\ PanelVisible
  /\ events.clicks >= 3
  /\ events.existingOnClick
  /\ events.existing_calls = events.clicks

\* the element is in the tree of the panel and neither it nor an element
\* above it has the display 'none'
RECURSIVE Shown(_)
Shown(element) ==
  IF element = "panel" THEN PanelVisible
  ELSE /\ panel.panelElements.of.display[element] # "none"
       /\ \E parent \in DOMAIN panel.panelElements.of.children :
            /\ \E k \in 1..Len(panel.panelElements.of.children[parent]) :
                 panel.panelElements.of.children[parent][k] = element
            /\ Shown(parent)

\* C18: after a click on a community circle whose record carries a
\* detail_url the displayed panel shows the 'Detailed Community Page' link
\* and the shareable-link control, the copy button or the link field.
C18_PanelOffersBothLinks ==
  (LastHitObject /\ events.last.info.object.detail_url # <<>>) =>
    /\ Shown("openLink")
    /\ Shown("copyButton") \/ Shown("linkInput")


\* no keyword of any of the three sets occurs in the text
HoldsNoKeyword(text) ==
  ~any_keyword(OPERATING_KEYWORDS \cup INOPERATIVE_KEYWORDS \cup PLANNED_KEYWORDS, text)

\* the text is an inoperative keyword, alone or between words that hold no
\* keyword
InoperativeKeywordText(text) ==
  \E keyword \in INOPERATIVE_KEYWORDS :
    \E i \in 1..Len(text) :
      /\ i + Len(keyword) - 1 <= Len(text)
      /\ SubSeq(text, i, i + Len(keyword) - 1) = keyword
      /\ HoldsNoKeyword(SubSeq(text, 1, i - 1))
      /\ HoldsNoKeyword(SubSeq(text, i + Len(keyword), Len(text)))

\* C20: a status text that is a keyword of the inoperative keyword set, on
\* its own or inside a longer text that holds no other keyword, is
\* classified 'inoperative'.
C20_InoperativeKeywords ==
  (pc = "classified" /\ value.kind = "str"
     /\ InoperativeKeywordText(lower(strip(value.s))))
    => result = "inoperative"

\* the class the tooltip shows for the member: classify_status of its
\* System Status cell
ClassifiedOperating(row) == classify_status(row.status) = "operating"

OperatingCategories == {"diesels_off_operating", "non_diesels_off_operating"}

\* C21: the pin category of a community agrees with the status classes of
\* its tooltip: a member classified 'operating' that is diesels-off-enabled
\* gives diesels_off_operating; a member classified 'operating' in a
\* community with no diesels-off-enabled member gives
\* non_diesels_off_operating; with no member classified 'operating' the
\* category is not an operating one.
C21_PinAgreesWithStatus ==
  pc = "colored" =>
    /\ (\E r \in Members : ClassifiedOperating(r) /\ DieselsOffMember(r))
         => result.category = "diesels_off_operating"
    /\ ((\E r \in Members : ClassifiedOperating(r))
          /\ ~\E r \in Members : DieselsOffMember(r))
         => result.category = "non_diesels_off_operating"
    /\ (~\E r \in Members : ClassifiedOperating(r))
         => result.category \notin OperatingCategories

\* C22: the detail link round-trips: opening the detail_url of a record
\* selects the community of the record, so that the pass renders the detail
\* page alone, with the tooltip of that community.
C22_DetailLinkRoundTrip ==
  pc = "followed" =>
    /\ SelectedCommunity = value.community
    /\ page = << [ kind |-> "detail", community |-> value.community,
                   html |-> value.tooltip_html ] >>

====
